---- MODULE Spec2Model ----
(***************************************************************************)
(* A model of the 6502 interpreter of nes-emu-rs: the CPU of src/cpu.rs    *)
(* (registers, status flags, memory, stack, addressing-mode resolver and   *)
(* the run loop with one action per match arm) and the opcode table of     *)
(* src/hardware/opcode.rs.                                                 *)
(***************************************************************************)
EXTENDS Integers, Sequences, FiniteSets, TLC

VARIABLES
    register_a,       \* CPU.register_a: u8
    register_x,       \* CPU.register_x: u8
    register_y,       \* CPU.register_y: u8
    status,           \* CPU.status: CpuStatus, as its bits()
    program_counter,  \* CPU.program_counter: u16
    stack_pointer,    \* CPU.stack_pointer: u8
    memory,           \* CPU.memory: the non-zero cells of the zero-initialised array
    run_state,        \* where run() is: "running", "returned" or "panicked"
    hist,             \* history: the last HistLen instructions dispatched by run()
    input             \* history: the configuration the run was started from

vars == <<register_a, register_x, register_y, status, program_counter,
          stack_pointer, memory, run_state, hist, input>>

----------------------------------------------------------------------------
(* Bounds of the model. *)

\* Instructions remembered in hist.
HistLen == 2
\* Longest chain of stack pushes in the small push/pop programs.
MaxPush == 3
\* Calls of the memory functions in a behaviour of SpecBus.
MaxBusOps == 3
\* Calls that precede a load in a behaviour of SpecBus.
MaxBeforeLoad == 1

----------------------------------------------------------------------------
(* Bit arithmetic on bytes. *)

Bit(v, i) == (v \div (2 ^ i)) % 2

BitAnd(a, b) ==
    Bit(a, 0) * Bit(b, 0) + 2 * Bit(a, 1) * Bit(b, 1)
    + 4 * Bit(a, 2) * Bit(b, 2) + 8 * Bit(a, 3) * Bit(b, 3)
    + 16 * Bit(a, 4) * Bit(b, 4) + 32 * Bit(a, 5) * Bit(b, 5)
    + 64 * Bit(a, 6) * Bit(b, 6) + 128 * Bit(a, 7) * Bit(b, 7)

BitOr(a, b) == a + b - BitAnd(a, b)

BitXor(a, b) == a + b - 2 * BitAnd(a, b)

\* `x as u8` of a non-negative or negative integer.
as_u8(x) == x % 256

\* `x as i8` of a byte: its two's complement reading.
as_i8(x) == IF x >= 128 THEN x - 256 ELSE x

\* i8::wrapping_neg
wrapping_neg_i8(x) == as_i8((0 - x) % 256)

\* i8::wrapping_sub
wrapping_sub_i8(x, y) == as_i8((x - y) % 256)

\* u8::wrapping_add, u8::wrapping_sub
wrapping_add_u8(x, y) == (x + y) % 256

\* u8::saturating_sub in the place of u8::wrapping_sub.
saturating_sub_u8(x, y) == IF x < y THEN 0 ELSE x - y

wrapping_sub_u8(x, y) == (x - y) % 256

\* u16::wrapping_add
wrapping_add_u16(x, y) == (x + y) % 65536

\* u16::from_be_bytes([b0, b1]): b0 is the most significant byte.
from_be_bytes(b0, b1) == b0 * 256 + b1

\* u16::from_le_bytes([b0, b1]): b0 is the least significant byte.
from_le_bytes(b0, b1) == b1 * 256 + b0

\* u16::to_le_bytes: <<low byte, high byte>>.
to_le_bytes(v) == <<v % 256, v \div 256>>

----------------------------------------------------------------------------
(* CpuStatus: the bitflags of src/cpu.rs. *)

CARRY == 1
ZERO == 2
INTERRUPT == 4
DECIMAL_MODE == 8
BREAK == 16
OVERFLOW == 64
NEGATIVE == 128

\* The union of the declared flags: bit 5 is not one of them.
CpuStatus_all ==
    CARRY + ZERO + INTERRUPT + DECIMAL_MODE + BREAK + OVERFLOW + NEGATIVE

contains(p, flag) == BitAnd(p, flag) = flag

insert(p, flag) == BitOr(p, flag)

remove(p, flag) == BitAnd(p, 255 - flag)

set(p, flag, value) == IF value THEN insert(p, flag) ELSE remove(p, flag)

\* CpuStatus::from_bits_retain in the place of from_bits_truncate.
from_bits_retain(bits) == bits

from_bits_truncate(bits) == BitAnd(bits, CpuStatus_all)

update_zero_and_negative_flags(p, value) ==
    set(set(p, ZERO, value = 0), NEGATIVE, BitAnd(value, 128) # 0)

----------------------------------------------------------------------------
(* The opcode table of src/hardware/opcode.rs. *)

OpCode_new(code, instruction, bytes, cycles, addressing_mode) ==
    [code |-> code, instruction |-> instruction, len |-> bytes,
     cycles |-> cycles, addressing_mode |-> addressing_mode]

\* No row: what HashSet::get returns for a byte that is no code of the table.
None ==
    [code |-> -1, instruction |-> "none", len |-> 0, cycles |-> 0,
     addressing_mode |-> "none"]

\* A table of two kinds of rows: LDA with the mode Other for the codes of
\* the immediate mode, NOP for every other byte.
OpCode_get_immediate_as_other(opscode) ==
    IF opscode \in {\h69, \h29, \hC9, \hE0, \hC0, \h49, \hA9, \hA2, \hA0,
                    \h09, \hE9}
    THEN OpCode_new(opscode, "LDA", 2, 2, "Other")
    ELSE OpCode_new(opscode, "NOP", 1, 2, "Other")

\* CPU_OP_CODES.get(&opscode): the row of the table whose code is the byte.
\* The rows are those of the table, in its order; no code occurs twice.
OpCode_get(opscode) ==
    CASE
         opscode = \h69 -> OpCode_new(\h69, "ADC", 2, 2, "Immediate")
      [] opscode = \h65 -> OpCode_new(\h65, "ADC", 2, 3, "ZeroPage")
      [] opscode = \h75 -> OpCode_new(\h75, "ADC", 2, 4, "ZeroPageX")
      [] opscode = \h6D -> OpCode_new(\h6D, "ADC", 3, 4, "Absolute")
      [] opscode = \h7D -> OpCode_new(\h7D, "ADC", 3, 4, "AbsoluteX")
      [] opscode = \h79 -> OpCode_new(\h79, "ADC", 3, 4, "AbsoluteY")
      [] opscode = \h61 -> OpCode_new(\h61, "ADC", 2, 6, "IndirectX")
      [] opscode = \h71 -> OpCode_new(\h71, "ADC", 2, 5, "IndirectY")
      [] opscode = \h29 -> OpCode_new(\h29, "AND", 2, 2, "Immediate")
      [] opscode = \h25 -> OpCode_new(\h25, "AND", 2, 3, "ZeroPage")
      [] opscode = \h35 -> OpCode_new(\h35, "AND", 2, 4, "ZeroPageX")
      [] opscode = \h2D -> OpCode_new(\h2D, "AND", 3, 4, "Absolute")
      [] opscode = \h3D -> OpCode_new(\h3D, "AND", 3, 4, "AbsoluteX")
      [] opscode = \h39 -> OpCode_new(\h39, "AND", 3, 4, "AbsoluteY")
      [] opscode = \h21 -> OpCode_new(\h21, "AND", 2, 6, "IndirectX")
      [] opscode = \h31 -> OpCode_new(\h31, "AND", 2, 5, "IndirectY")
      [] opscode = \h0A -> OpCode_new(\h0A, "ASL", 1, 2, "Other")
      [] opscode = \h06 -> OpCode_new(\h06, "ASL", 2, 5, "ZeroPage")
      [] opscode = \h16 -> OpCode_new(\h16, "ASL", 2, 6, "ZeroPageX")
      [] opscode = \h0E -> OpCode_new(\h0E, "ASL", 3, 6, "Absolute")
      [] opscode = \h1E -> OpCode_new(\h1E, "ASL", 3, 7, "AbsoluteX")
      [] opscode = \h90 -> OpCode_new(\h90, "BCC", 2, 2, "Other")
      [] opscode = \hB0 -> OpCode_new(\hB0, "BCS", 2, 2, "Other")
      [] opscode = \hF0 -> OpCode_new(\hF0, "BEQ", 2, 2, "Other")
      [] opscode = \h24 -> OpCode_new(\h24, "BIT", 2, 3, "ZeroPage")
      [] opscode = \h2C -> OpCode_new(\h2C, "BIT", 3, 4, "Absolute")
      [] opscode = \h30 -> OpCode_new(\h30, "BMI", 2, 2, "Other")
      [] opscode = \hD0 -> OpCode_new(\hD0, "BNE", 2, 2, "Other")
      [] opscode = \h10 -> OpCode_new(\h10, "BPL", 2, 2, "Other")
      [] opscode = \h00 -> OpCode_new(\h00, "BRK", 0, 7, "Other")
      [] opscode = \h50 -> OpCode_new(\h50, "BVC", 2, 2, "Other")
      [] opscode = \h70 -> OpCode_new(\h70, "BVS", 2, 2, "Other")
      [] opscode = \h18 -> OpCode_new(\h18, "CLC", 1, 2, "Other")
      [] opscode = \h58 -> OpCode_new(\h58, "CLI", 1, 2, "Other")
      [] opscode = \hB8 -> OpCode_new(\hB8, "CLV", 1, 2, "Other")
      [] opscode = \hC9 -> OpCode_new(\hC9, "CMP", 2, 2, "Immediate")
      [] opscode = \hC5 -> OpCode_new(\hC5, "CMP", 2, 3, "ZeroPage")
      [] opscode = \hD5 -> OpCode_new(\hD5, "CMP", 2, 4, "ZeroPageX")
      [] opscode = \hCD -> OpCode_new(\hCD, "CMP", 3, 4, "Absolute")
      [] opscode = \hDD -> OpCode_new(\hDD, "CMP", 3, 4, "AbsoluteX")
      [] opscode = \hD9 -> OpCode_new(\hD9, "CMP", 3, 4, "AbsoluteY")
      [] opscode = \hC1 -> OpCode_new(\hC1, "CMP", 2, 6, "IndirectX")
      [] opscode = \hD1 -> OpCode_new(\hD1, "CMP", 2, 5, "IndirectY")
      [] opscode = \hE0 -> OpCode_new(\hE0, "CPX", 2, 2, "Immediate")
      [] opscode = \hE4 -> OpCode_new(\hE4, "CPX", 2, 3, "ZeroPage")
      [] opscode = \hEC -> OpCode_new(\hEC, "CPX", 3, 4, "Absolute")
      [] opscode = \hC0 -> OpCode_new(\hC0, "CPY", 2, 2, "Immediate")
      [] opscode = \hC4 -> OpCode_new(\hC4, "CPY", 2, 3, "ZeroPage")
      [] opscode = \hCC -> OpCode_new(\hCC, "CPY", 3, 4, "Absolute")
      [] opscode = \hC6 -> OpCode_new(\hC6, "DEC", 2, 5, "ZeroPage")
      [] opscode = \hD6 -> OpCode_new(\hD6, "DEC", 2, 6, "ZeroPageX")
      [] opscode = \hCE -> OpCode_new(\hCE, "DEC", 3, 6, "Absolute")
      [] opscode = \hDE -> OpCode_new(\hDE, "DEC", 4, 7, "AbsoluteX")
      [] opscode = \hCA -> OpCode_new(\hCA, "DEX", 1, 2, "Other")
      [] opscode = \h88 -> OpCode_new(\h88, "DEY", 1, 2, "Other")
      [] opscode = \h49 -> OpCode_new(\h49, "EOR", 2, 2, "Immediate")
      [] opscode = \h45 -> OpCode_new(\h45, "EOR", 2, 3, "ZeroPage")
      [] opscode = \h55 -> OpCode_new(\h55, "EOR", 2, 4, "ZeroPageX")
      [] opscode = \h4D -> OpCode_new(\h4D, "EOR", 3, 4, "Absolute")
      [] opscode = \h5D -> OpCode_new(\h5D, "EOR", 3, 4, "AbsoluteX")
      [] opscode = \h59 -> OpCode_new(\h59, "EOR", 3, 4, "AbsoluteY")
      [] opscode = \h41 -> OpCode_new(\h41, "EOR", 2, 6, "IndirectX")
      [] opscode = \h51 -> OpCode_new(\h51, "EOR", 2, 5, "IndirectY")
      [] opscode = \hE6 -> OpCode_new(\hE6, "INC", 2, 5, "ZeroPage")
      [] opscode = \hF6 -> OpCode_new(\hF6, "INC", 2, 6, "ZeroPageX")
      [] opscode = \hEE -> OpCode_new(\hEE, "INC", 3, 6, "Absolute")
      [] opscode = \hFE -> OpCode_new(\hFE, "INC", 3, 5, "AbsoluteX")
      [] opscode = \hE8 -> OpCode_new(\hE8, "INX", 1, 2, "Other")
      [] opscode = \hC8 -> OpCode_new(\hC8, "INY", 1, 2, "Other")
      [] opscode = \h4C -> OpCode_new(\h4C, "JMP", 3, 3, "Absolute")
      [] opscode = \h6C -> OpCode_new(\h6C, "JMP", 3, 5, "Other")
      [] opscode = \h20 -> OpCode_new(\h20, "JSR", 3, 6, "Absolute")
      [] opscode = \hA9 -> OpCode_new(\hA9, "LDA", 2, 2, "Immediate")
      [] opscode = \hA5 -> OpCode_new(\hA5, "LDA", 2, 3, "ZeroPage")
      [] opscode = \hB5 -> OpCode_new(\hB5, "LDA", 2, 4, "ZeroPageX")
      [] opscode = \hAD -> OpCode_new(\hAD, "LDA", 3, 4, "Absolute")
      [] opscode = \hBD -> OpCode_new(\hBD, "LDA", 3, 4, "AbsoluteX")
      [] opscode = \hB9 -> OpCode_new(\hB9, "LDA", 3, 4, "AbsoluteY")
      [] opscode = \hA1 -> OpCode_new(\hA1, "LDA", 2, 6, "IndirectX")
      [] opscode = \hB1 -> OpCode_new(\hB1, "LDA", 2, 5, "IndirectY")
      [] opscode = \hA2 -> OpCode_new(\hA2, "LDX", 2, 2, "Immediate")
      [] opscode = \hA6 -> OpCode_new(\hA6, "LDX", 2, 3, "ZeroPage")
      [] opscode = \hB2 -> OpCode_new(\hB2, "LDX", 2, 4, "ZeroPageY")
      [] opscode = \hAE -> OpCode_new(\hAE, "LDX", 3, 4, "Absolute")
      [] opscode = \hBE -> OpCode_new(\hBE, "LDX", 3, 4, "AbsoluteY")
      [] opscode = \hA0 -> OpCode_new(\hA0, "LDY", 2, 2, "Immediate")
      [] opscode = \hA4 -> OpCode_new(\hA4, "LDY", 2, 3, "ZeroPage")
      [] opscode = \hB4 -> OpCode_new(\hB4, "LDY", 2, 4, "ZeroPageX")
      [] opscode = \hAC -> OpCode_new(\hAC, "LDY", 3, 4, "Absolute")
      [] opscode = \hBC -> OpCode_new(\hBC, "LDY", 3, 4, "AbsoluteX")
      [] opscode = \h4A -> OpCode_new(\h4A, "LSR", 1, 2, "Other")
      [] opscode = \h46 -> OpCode_new(\h46, "LSR", 2, 5, "ZeroPage")
      [] opscode = \h56 -> OpCode_new(\h56, "LSR", 2, 6, "ZeroPageY")
      [] opscode = \h4E -> OpCode_new(\h4E, "LSR", 3, 6, "Absolute")
      [] opscode = \h5E -> OpCode_new(\h5E, "LSR", 3, 7, "AbsoluteX")
      [] opscode = \hEA -> OpCode_new(\hEA, "NOP", 1, 2, "Other")
      [] opscode = \h09 -> OpCode_new(\h09, "ORA", 2, 2, "Immediate")
      [] opscode = \h05 -> OpCode_new(\h05, "ORA", 2, 3, "ZeroPage")
      [] opscode = \h15 -> OpCode_new(\h15, "ORA", 2, 4, "ZeroPageX")
      [] opscode = \h0D -> OpCode_new(\h0D, "ORA", 3, 4, "Absolute")
      [] opscode = \h1D -> OpCode_new(\h1D, "ORA", 3, 4, "AbsoluteX")
      [] opscode = \h19 -> OpCode_new(\h19, "ORA", 3, 4, "AbsoluteY")
      [] opscode = \h01 -> OpCode_new(\h01, "ORA", 2, 6, "IndirectX")
      [] opscode = \h11 -> OpCode_new(\h11, "ORA", 2, 5, "IndirectY")
      [] opscode = \h48 -> OpCode_new(\h48, "PHA", 1, 3, "Other")
      [] opscode = \h08 -> OpCode_new(\h08, "PHP", 1, 3, "Other")
      [] opscode = \h68 -> OpCode_new(\h68, "PLA", 1, 4, "Other")
      [] opscode = \h28 -> OpCode_new(\h28, "PLP", 1, 4, "Other")
      [] opscode = \h2A -> OpCode_new(\h2A, "ROL", 1, 2, "Other")
      [] opscode = \h26 -> OpCode_new(\h26, "ROL", 2, 5, "ZeroPage")
      [] opscode = \h36 -> OpCode_new(\h36, "ROL", 2, 6, "ZeroPageX")
      [] opscode = \h2E -> OpCode_new(\h2E, "ROL", 3, 6, "Absolute")
      [] opscode = \h3E -> OpCode_new(\h3E, "ROL", 3, 7, "AbsoluteY")
      [] opscode = \h6A -> OpCode_new(\h6A, "ROL", 1, 2, "Other")
      [] opscode = \h66 -> OpCode_new(\h66, "ROL", 2, 5, "ZeroPage")
      [] opscode = \h76 -> OpCode_new(\h76, "ROL", 2, 6, "ZeroPageX")
      [] opscode = \h6E -> OpCode_new(\h6E, "ROL", 3, 6, "Absolute")
      [] opscode = \h7E -> OpCode_new(\h7E, "ROL", 3, 7, "AbsoluteY")
      [] opscode = \h40 -> OpCode_new(\h40, "RTI", 1, 6, "Other")
      [] opscode = \h60 -> OpCode_new(\h60, "RTS", 1, 6, "Other")
      [] opscode = \hE9 -> OpCode_new(\hE9, "SBC", 2, 2, "Immediate")
      [] opscode = \hE5 -> OpCode_new(\hE5, "SBC", 2, 3, "ZeroPage")
      [] opscode = \hF5 -> OpCode_new(\hF5, "SBC", 2, 4, "ZeroPageX")
      [] opscode = \hED -> OpCode_new(\hED, "SBC", 3, 4, "Absolute")
      [] opscode = \hFD -> OpCode_new(\hFD, "SBC", 3, 4, "AbsoluteX")
      [] opscode = \hF9 -> OpCode_new(\hF9, "SBC", 3, 4, "AbsoluteY")
      [] opscode = \hE1 -> OpCode_new(\hE1, "SBC", 2, 6, "IndirectX")
      [] opscode = \hF1 -> OpCode_new(\hF1, "SBC", 2, 5, "IndirectY")
      [] opscode = \h38 -> OpCode_new(\h38, "SEC", 1, 2, "Other")
      [] opscode = \h78 -> OpCode_new(\h78, "SEI", 1, 2, "Other")
      [] opscode = \h85 -> OpCode_new(\h85, "STA", 2, 3, "ZeroPage")
      [] opscode = \h95 -> OpCode_new(\h95, "STA", 2, 4, "ZeroPageX")
      [] opscode = \h8D -> OpCode_new(\h8D, "STA", 3, 4, "Absolute")
      [] opscode = \h9D -> OpCode_new(\h9D, "STA", 3, 5, "AbsoluteX")
      [] opscode = \h99 -> OpCode_new(\h99, "STA", 3, 5, "AbsoluteY")
      [] opscode = \h81 -> OpCode_new(\h81, "STA", 2, 6, "IndirectX")
      [] opscode = \h91 -> OpCode_new(\h91, "STA", 2, 6, "IndirectY")
      [] opscode = \h86 -> OpCode_new(\h86, "STX", 2, 3, "ZeroPage")
      [] opscode = \h96 -> OpCode_new(\h96, "STX", 2, 4, "ZeroPageY")
      [] opscode = \h8E -> OpCode_new(\h8E, "STX", 3, 4, "Absolute")
      [] opscode = \h84 -> OpCode_new(\h84, "STY", 2, 3, "ZeroPage")
      [] opscode = \h94 -> OpCode_new(\h94, "STY", 2, 4, "ZeroPageX")
      [] opscode = \h8C -> OpCode_new(\h8C, "STY", 3, 4, "Absolute")
      [] opscode = \hAA -> OpCode_new(\hAA, "TAX", 1, 2, "Other")
      [] opscode = \hA8 -> OpCode_new(\hA8, "TAY", 1, 2, "Other")
      [] opscode = \hBA -> OpCode_new(\hBA, "TSX", 1, 2, "Other")
      [] opscode = \h8A -> OpCode_new(\h8A, "TXA", 1, 2, "Other")
      [] opscode = \h9A -> OpCode_new(\h9A, "TXS", 1, 2, "Other")
      [] opscode = \h98 -> OpCode_new(\h98, "TYA", 1, 2, "Other")
      [] OTHER -> None

\* The table as the set of its rows.
CPU_OP_CODES == {OpCode_get(opscode) : opscode \in 0 .. 255} \ {None}

----------------------------------------------------------------------------
(* The CPU as a value, and the operations of impl CPU on it.  A panic      *)
(* (an index out of bounds, an arithmetic overflow in a build with         *)
(* overflow checks, panic!, todo!, unreachable!) sets panicked; what       *)
(* follows a panic does not run.                                           *)

STACK_RESET == 255
STACK == 256
\* The length of CPU.memory, [u8; 0xFFFF]: the indices are 0 .. 0xFFFE.
MEMORY_LEN == 65535

U16_MAX == 65535

\* The value of a cell of the zero-initialised array.
Cell(mem, addr) == IF addr \in DOMAIN mem THEN mem[addr] ELSE 0

\* The array with one cell set (zero cells are not kept).
Store(mem, addr, data) ==
    IF data = 0
    THEN [a \in (DOMAIN mem) \ {addr} |-> mem[a]]
    ELSE [a \in (DOMAIN mem) \cup {addr} |-> IF a = addr THEN data ELSE mem[a]]

Panic(c) == [c EXCEPT !.panicked = TRUE]

Ret(c, v) == [c |-> c, v |-> v]

\* x + y on u16: past 0xFFFF it panics in a build with overflow checks
\* and wraps in one without.
add_u16(c, x, y) ==
    IF c.panicked THEN Ret(c, 0)
    ELSE IF x + y > U16_MAX
         THEN IF c.overflow_checks THEN Ret(Panic(c), 0)
              ELSE Ret(c, (x + y) % 65536)
         ELSE Ret(c, x + y)

mem_read(c, addr) ==
    IF c.panicked THEN Ret(c, 0)
    ELSE IF addr >= MEMORY_LEN THEN Ret(Panic(c), 0)
    ELSE Ret(c, Cell(c.memory, addr))

mem_write(c, addr, data) ==
    IF c.panicked THEN c
    ELSE IF addr >= MEMORY_LEN THEN Panic(c)
    ELSE [c EXCEPT !.memory = Store(c.memory, addr, data)]

mem_read_u16(c, pos) ==
    LET lo == mem_read(c, pos)
        next == add_u16(lo.c, pos, 1)
        hi == mem_read(next.c, next.v)
    IN  Ret(hi.c, from_be_bytes(hi.v, lo.v))

mem_write_u16(c, pos, data) ==
    LET le_bits == to_le_bytes(data)
        c1 == mem_write(c, pos, le_bits[1])
        next == add_u16(c1, pos, 1)
    IN  mem_write(next.c, next.v, le_bits[2])

\* stack_push without the decrement of the stack pointer.
stack_push_in_place(c, value) == mem_write(c, STACK + c.stack_pointer, value)

stack_push(c, value) ==
    LET c1 == mem_write(c, STACK + c.stack_pointer, value)
    IN  IF c1.panicked THEN c1
        ELSE [c1 EXCEPT !.stack_pointer = wrapping_sub_u8(c.stack_pointer, 1)]

stack_push_u16(c, value) ==
    LET le_bits == to_le_bytes(value)
    IN  stack_push(stack_push(c, le_bits[1]), le_bits[2])

\* stack_pop reading the cell before it increments the stack pointer.
stack_pop_post_increment(c) ==
    IF c.panicked THEN Ret(c, 0)
    ELSE LET value == mem_read(c, STACK + c.stack_pointer)
         IN  Ret([value.c EXCEPT
                     !.stack_pointer = wrapping_add_u8(c.stack_pointer, 1)],
                 value.v)

stack_pop(c) ==
    IF c.panicked THEN Ret(c, 0)
    ELSE LET c1 == [c EXCEPT !.stack_pointer = wrapping_add_u8(c.stack_pointer, 1)]
         IN  mem_read(c1, STACK + c1.stack_pointer)

stack_pop_u16(c) ==
    LET lo == stack_pop(c)
        hi == stack_pop(lo.c)
    IN  Ret(hi.c, from_le_bytes(hi.v, lo.v))

set_register_a(c, value) ==
    IF c.panicked THEN c
    ELSE [c EXCEPT !.register_a = value,
                   !.status = update_zero_and_negative_flags(c.status, value)]

set_register_x(c, value) ==
    IF c.panicked THEN c
    ELSE [c EXCEPT !.register_x = value,
                   !.status = update_zero_and_negative_flags(c.status, value)]

set_register_y(c, value) ==
    IF c.panicked THEN c
    ELSE [c EXCEPT !.register_y = value,
                   !.status = update_zero_and_negative_flags(c.status, value)]

set_status(c, p) == IF c.panicked THEN c ELSE [c EXCEPT !.status = p]

set_program_counter(c, pc) ==
    IF c.panicked THEN c ELSE [c EXCEPT !.program_counter = pc]

\* add_to_register_a with the carry left out of the sum.
add_to_register_a_without_carry(c, data) ==
    IF c.panicked THEN c
    ELSE LET sum == c.register_a + data
             p1 == set(c.status, CARRY, sum > 255)
             result == as_u8(sum)
             overflow ==
                 BitAnd(BitAnd(BitXor(c.register_a, result),
                               BitXor(data, result)), 128) # 0
             p2 == set(p1, OVERFLOW, overflow)
         IN  set_register_a(set_status(c, p2), result)

add_to_register_a(c, data) ==
    IF c.panicked THEN c
    ELSE LET sum == c.register_a + data
                    + (IF contains(c.status, CARRY) THEN 1 ELSE 0)
             p1 == set(c.status, CARRY, sum > 255)
             result == as_u8(sum)
             overflow ==
                 BitAnd(BitAnd(BitXor(c.register_a, result),
                               BitXor(data, result)), 128) # 0
             p2 == set(p1, OVERFLOW, overflow)
         IN  set_register_a(set_status(c, p2), result)

\* get_operand_address with the high byte of the IndirectY pointer read at
\* base + 1 without the wrap inside the zero page.
get_operand_address_past_zero_page(c, mode) ==
    IF c.panicked THEN Ret(c, 0)
    ELSE CASE mode = "Immediate" -> Ret(c, c.program_counter)
           [] mode = "ZeroPage" -> mem_read(c, c.program_counter)
           [] mode = "ZeroPageX" ->
                LET pos == mem_read(c, c.program_counter)
                IN  Ret(pos.c, wrapping_add_u8(pos.v, c.register_x))
           [] mode = "ZeroPageY" ->
                LET pos == mem_read(c, c.program_counter)
                IN  Ret(pos.c, wrapping_add_u8(pos.v, c.register_y))
           [] mode = "Absolute" -> mem_read_u16(c, c.program_counter)
           [] mode = "AbsoluteX" ->
                LET base == mem_read_u16(c, c.program_counter)
                IN  Ret(base.c, wrapping_add_u16(base.v, c.register_x))
           [] mode = "AbsoluteY" ->
                LET base == mem_read_u16(c, c.program_counter)
                IN  Ret(base.c, wrapping_add_u16(base.v, c.register_y))
           [] mode = "IndirectX" ->
                LET base == mem_read(c, c.program_counter)
                    ptr == wrapping_add_u8(base.v, c.register_x)
                    lo == mem_read(base.c, ptr)
                    hi == mem_read(lo.c, wrapping_add_u8(ptr, 1))
                IN  Ret(hi.c, from_be_bytes(hi.v, lo.v))
           [] mode = "IndirectY" ->
                LET base == mem_read(c, c.program_counter)
                    lo == mem_read(base.c, base.v)
                    hi == mem_read(lo.c, base.v + 1)
                    deref_base == from_be_bytes(hi.v, lo.v)
                IN  Ret(hi.c, wrapping_add_u16(deref_base, c.register_y))
           [] mode = "Other" -> Ret(Panic(c), 0)

get_operand_address(c, mode) ==
    IF c.panicked THEN Ret(c, 0)
    ELSE CASE mode = "Immediate" -> Ret(c, c.program_counter)
           [] mode = "ZeroPage" -> mem_read(c, c.program_counter)
           [] mode = "ZeroPageX" ->
                LET pos == mem_read(c, c.program_counter)
                IN  Ret(pos.c, wrapping_add_u8(pos.v, c.register_x))
           [] mode = "ZeroPageY" ->
                LET pos == mem_read(c, c.program_counter)
                IN  Ret(pos.c, wrapping_add_u8(pos.v, c.register_y))
           [] mode = "Absolute" -> mem_read_u16(c, c.program_counter)
           [] mode = "AbsoluteX" ->
                LET base == mem_read_u16(c, c.program_counter)
                IN  Ret(base.c, wrapping_add_u16(base.v, c.register_x))
           [] mode = "AbsoluteY" ->
                LET base == mem_read_u16(c, c.program_counter)
                IN  Ret(base.c, wrapping_add_u16(base.v, c.register_y))
           [] mode = "IndirectX" ->
                LET base == mem_read(c, c.program_counter)
                    ptr == wrapping_add_u8(base.v, c.register_x)
                    lo == mem_read(base.c, ptr)
                    hi == mem_read(lo.c, wrapping_add_u8(ptr, 1))
                IN  Ret(hi.c, from_be_bytes(hi.v, lo.v))
           [] mode = "IndirectY" ->
                LET base == mem_read(c, c.program_counter)
                    lo == mem_read(base.c, base.v)
                    hi == mem_read(lo.c, wrapping_add_u8(base.v, 1))
                    deref_base == from_be_bytes(hi.v, lo.v)
                IN  Ret(hi.c, wrapping_add_u16(deref_base, c.register_y))
           [] mode = "Other" -> Ret(Panic(c), 0)

\* The operand of an arm that resolves the address and reads the byte there.
operand(c, mode) ==
    LET At(addr) == mem_read(addr.c, addr.v)
    IN  At(get_operand_address(c, mode))

----------------------------------------------------------------------------
(* The arms of the match in CPU::run, each as the CPU after the arm.  c is *)
(* the CPU after the opcode fetch (program_counter is at the first operand *)
(* byte) and command is the table row of the opcode.                       *)

\* The input of a shift or rotate arm: the accumulator when the row's mode
\* is Other, else the byte at the effective address.
shift_input(c, command) ==
    IF command.addressing_mode = "Other"
    THEN [c |-> c, addr |-> 0, v |-> c.register_a]
    ELSE LET At(addr) ==
                 LET Read(value) ==
                         [c |-> value.c, addr |-> addr.v, v |-> value.v]
                 IN  Read(mem_read(addr.c, addr.v))
         IN  At(get_operand_address(c, command.addressing_mode))

\* The end of a shift or rotate arm: the result goes to the accumulator or
\* to the effective address, and Z and N follow it.
shift_output(c, command, addr, value) ==
    IF command.addressing_mode = "Other"
    THEN set_register_a(c, value)
    ELSE LET Flags(c1) ==
                 set_status(c1, update_zero_and_negative_flags(c1.status, value))
         IN  Flags(mem_write(c, addr, value))

ExecADC(c, command) ==
    LET value == operand(c, command.addressing_mode)
    IN  add_to_register_a(value.c, value.v)

ExecASL(c, command) ==
    LET Shift(in) ==
            shift_output(
                set_status(in.c, set(in.c.status, CARRY, in.v \div 128 = 1)),
                command, in.addr, (in.v * 2) % 256)
    IN  Shift(shift_input(c, command))

ExecAND(c, command) ==
    LET value == operand(c, command.addressing_mode)
    IN  set_register_a(value.c, BitAnd(c.register_a, value.v))

ExecBIT(c, command) ==
    LET value == operand(c, command.addressing_mode)
        p1 == update_zero_and_negative_flags(c.status, value.v)
    IN  set_status(value.c, set(p1, OVERFLOW, BitAnd(value.v, 64) # 0))

\* ExecBRK with the insert of BREAK left out.
ExecBRK_without_break(c, command) == [c EXCEPT !.returned = TRUE]

ExecBRK(c, command) ==
    [c EXCEPT !.status = insert(c.status, BREAK), !.returned = TRUE]

ExecCLC(c, command) == set_status(c, remove(c.status, CARRY))

ExecCLI(c, command) == set_status(c, remove(c.status, INTERRUPT))

ExecCLV(c, command) == set_status(c, remove(c.status, OVERFLOW))

\* The three flag updates shared by the CMP, CPX and CPY arms.
compare(c, register, value) ==
    LET p1 == set(c.status, CARRY, register >= value)
        p2 == set(p1, ZERO, register = value)
    IN  set_status(c, set(p2, NEGATIVE, BitAnd(value, 128) # 0))

ExecCMP(c, command) ==
    LET value == operand(c, command.addressing_mode)
    IN  compare(value.c, c.register_a, value.v)

ExecCPX(c, command) ==
    LET value == operand(c, command.addressing_mode)
    IN  compare(value.c, c.register_x, value.v)

ExecCPY(c, command) ==
    LET value == operand(c, command.addressing_mode)
    IN  compare(value.c, c.register_y, value.v)

ExecDEC(c, command) ==
    LET At(addr) ==
            LET Change(old) ==
                    LET value == wrapping_sub_u8(old.v, 1)
                        Flags(c1) ==
                            set_status(c1, update_zero_and_negative_flags(
                                               c1.status, value))
                    IN  Flags(mem_write(old.c, addr.v, value))
            IN  Change(mem_read(addr.c, addr.v))
    IN  At(get_operand_address(c, command.addressing_mode))

ExecDEX(c, command) == set_register_x(c, wrapping_sub_u8(c.register_x, 1))

ExecDEY(c, command) == set_register_y(c, wrapping_sub_u8(c.register_y, 1))

ExecEOR(c, command) ==
    LET value == operand(c, command.addressing_mode)
    IN  set_register_a(value.c, BitXor(c.register_a, value.v))

ExecINC(c, command) ==
    LET At(addr) ==
            LET Change(old) ==
                    LET value == wrapping_add_u8(old.v, 1)
                        Flags(c1) ==
                            set_status(c1, update_zero_and_negative_flags(
                                               c1.status, value))
                    IN  Flags(mem_write(old.c, addr.v, value))
            IN  Change(mem_read(addr.c, addr.v))
    IN  At(get_operand_address(c, command.addressing_mode))

ExecINX(c, command) == set_register_x(c, wrapping_add_u8(c.register_x, 1))

ExecINY(c, command) == set_register_y(c, wrapping_sub_u8(c.register_y, 1))

ExecJMP(c, command) ==
    LET addr ==
            CASE command.addressing_mode = "Absolute" ->
                    get_operand_address(c, command.addressing_mode)
              [] command.addressing_mode = "Other" ->
                    LET ptr == mem_read_u16(c, c.program_counter)
                    IN  IF ptr.v % 256 = 255
                        THEN LET lo == mem_read(ptr.c, ptr.v)
                                 hi == mem_read(lo.c, ptr.v - (ptr.v % 256))
                             IN  Ret(hi.c, from_be_bytes(hi.v, lo.v))
                        ELSE mem_read_u16(ptr.c, ptr.v)
              [] OTHER -> Ret(Panic(c), 0)
    IN  set_program_counter(addr.c, addr.v)

ExecJSR(c, command) ==
    LET plus2 == add_u16(c, c.program_counter, 2)
        c1 == stack_push_u16(plus2.c, (plus2.v - 1) % 65536)
        target_address == mem_read_u16(c1, c1.program_counter)
    IN  set_program_counter(target_address.c, target_address.v)

ExecLDA(c, command) ==
    LET value == operand(c, command.addressing_mode)
    IN  set_register_a(value.c, value.v)

\* ExecLDX with the accumulator as the target.
ExecLDX_into_accumulator(c, command) ==
    LET value == operand(c, command.addressing_mode)
    IN  set_register_a(value.c, value.v)

ExecLDX(c, command) ==
    LET value == operand(c, command.addressing_mode)
    IN  set_register_x(value.c, value.v)

ExecLDY(c, command) ==
    LET value == operand(c, command.addressing_mode)
    IN  set_register_y(value.c, value.v)

ExecLSR(c, command) ==
    LET Shift(in) ==
            shift_output(
                set_status(in.c, set(in.c.status, CARRY, in.v % 2 = 1)),
                command, in.addr, in.v \div 2)
    IN  Shift(shift_input(c, command))

ExecNOP(c, command) == c

ExecORA(c, command) ==
    LET value == operand(c, command.addressing_mode)
    IN  set_register_a(value.c, BitOr(c.register_a, value.v))

ExecPHA(c, command) == stack_push(c, c.register_a)

ExecPHP(c, command) == stack_push(c, c.status)

ExecPLA(c, command) ==
    LET value == stack_pop(c)
    IN  set_register_a(value.c, value.v)

ExecPLP(c, command) ==
    LET value == stack_pop(c)
    IN  set_status(value.c, from_bits_truncate(value.v))

\* ExecROL with the old carry left out of bit 0.
ExecROL_without_carry_in(c, command) ==
    LET Rotate(in) ==
            shift_output(
                set_status(in.c,
                           set(in.c.status, CARRY, BitAnd(in.v, 128) = 128)),
                command, in.addr, (in.v * 2) % 256)
    IN  Rotate(shift_input(c, command))

ExecROL(c, command) ==
    LET Rotate(in) ==
            LET carry == IF contains(in.c.status, CARRY) THEN 1 ELSE 0
            IN  shift_output(
                    set_status(in.c,
                               set(in.c.status, CARRY, BitAnd(in.v, 128) = 128)),
                    command, in.addr, BitOr((in.v * 2) % 256, carry))
    IN  Rotate(shift_input(c, command))

ExecROR(c, command) ==
    LET Rotate(in) ==
            LET carry == IF contains(in.c.status, CARRY) THEN 128 ELSE 0
            IN  shift_output(
                    set_status(in.c, set(in.c.status, CARRY, in.v % 2 = 1)),
                    command, in.addr, BitOr(in.v \div 2, carry))
    IN  Rotate(shift_input(c, command))

ExecRTI(c, command) ==
    LET value == stack_pop(c)
        c1 == set_status(value.c, from_bits_truncate(value.v))
        pc == stack_pop_u16(c1)
    IN  set_program_counter(pc.c, pc.v)

ExecRTS(c, command) ==
    LET popped == stack_pop_u16(c)
        pc == add_u16(popped.c, popped.v, 1)
    IN  set_program_counter(pc.c, pc.v)

\* ExecSBC with the operand negated and the subtraction of 1 left out.
ExecSBC_negated_operand(c, command) ==
    LET data == operand(c, command.addressing_mode)
    IN  add_to_register_a(data.c, as_u8(wrapping_neg_i8(as_i8(data.v))))

ExecSBC(c, command) ==
    LET data == operand(c, command.addressing_mode)
    IN  add_to_register_a(
            data.c, as_u8(wrapping_sub_i8(wrapping_neg_i8(as_i8(data.v)), 1)))

ExecSEC(c, command) == set_status(c, insert(c.status, CARRY))

ExecSEI(c, command) == set_status(c, insert(c.status, INTERRUPT))

ExecSTA(c, command) ==
    LET addr == get_operand_address(c, command.addressing_mode)
    IN  mem_write(addr.c, addr.v, c.register_a)

ExecSTX(c, command) ==
    LET addr == get_operand_address(c, command.addressing_mode)
    IN  mem_write(addr.c, addr.v, c.register_x)

ExecSTY(c, command) ==
    LET addr == get_operand_address(c, command.addressing_mode)
    IN  mem_write(addr.c, addr.v, c.register_y)

ExecTAX(c, command) == set_register_x(c, c.register_a)

ExecTAY(c, command) == set_register_y(c, c.register_a)

ExecTSX(c, command) ==
    LET value == stack_pop(c)
    IN  set_register_x(value.c, value.v)

ExecTXA(c, command) == set_register_a(c, c.register_x)

\* The arm `_ => todo!()`.
ExecTodo(c, command) == Panic(c)

\* The instructions with an arm of their own; every other one takes todo!().
ArmInstructions ==
    {"ADC", "ASL", "AND", "BIT", "BRK", "CLC", "CLI", "CLV", "CMP", "CPX",
     "CPY", "DEC", "DEX", "DEY", "EOR", "INC", "INX", "INY", "JMP", "JSR",
     "LDA", "LDX", "LDY", "LSR", "NOP", "ORA", "PHA", "PHP", "PLA", "PLP",
     "ROL", "ROR", "RTI", "RTS", "SBC", "SEC", "SEI", "STA", "STX", "STY",
     "TAX", "TAY", "TSX", "TXA"}

----------------------------------------------------------------------------
(* Construction: CPU::default, the writes a host or a test makes, load and *)
(* reset.                                                                  *)

CPU_default ==
    [register_a |-> 0, register_x |-> 0, register_y |-> 0, status |-> 0,
     program_counter |-> 0, stack_pointer |-> STACK_RESET, memory |-> <<>>,
     panicked |-> FALSE, returned |-> FALSE, overflow_checks |-> TRUE]

PROGRAM_START == 32768
RESET_VECTOR == 65532

\* load: copy_from_slice into memory[0x8000 ..], then the reset vector.
load(c, program) ==
    IF PROGRAM_START + Len(program) > MEMORY_LEN THEN Panic(c)
    ELSE LET region == PROGRAM_START .. (PROGRAM_START + Len(program) - 1)
             filled == {a \in region : program[a - PROGRAM_START + 1] # 0}
             copied ==
                 [a \in ((DOMAIN c.memory) \ region) \cup filled |->
                     IF a \in region THEN program[a - PROGRAM_START + 1]
                     ELSE c.memory[a]]
         IN  mem_write_u16([c EXCEPT !.memory = copied], RESET_VECTOR,
                           PROGRAM_START)

\* reset without self.status.clear().
reset_without_status_clear(c) ==
    LET c1 == [c EXCEPT !.register_a = 0, !.register_x = 0, !.register_y = 0,
                        !.stack_pointer = STACK_RESET]
        pc == mem_read_u16(c1, RESET_VECTOR)
    IN  set_program_counter(pc.c, pc.v)

reset(c) ==
    LET c1 == [c EXCEPT !.register_a = 0, !.register_x = 0, !.register_y = 0,
                        !.stack_pointer = STACK_RESET, !.status = 0]
        pc == mem_read_u16(c1, RESET_VECTOR)
    IN  set_program_counter(pc.c, pc.v)

----------------------------------------------------------------------------
(* The run loop. *)

\* The CPU of the current state, in a build with or without overflow checks.
CPU(overflow_checks) ==
    [register_a |-> register_a, register_x |-> register_x,
     register_y |-> register_y, status |-> status,
     program_counter |-> program_counter, stack_pointer |-> stack_pointer,
     memory |-> memory, panicked |-> FALSE, returned |-> FALSE,
     overflow_checks |-> overflow_checks]

\* let opscode = self.mem_read(self.program_counter); self.program_counter += 1
fetch(c) ==
    LET opscode == mem_read(c, c.program_counter)
        next == add_u16(opscode.c, c.program_counter, 1)
    IN  Ret(set_program_counter(next.c, next.v), opscode.v)

\* self.program_counter += (command.len - 1) as u16, unless the arm returned.
advance(c, command) ==
    IF c.panicked \/ c.returned THEN c
    ELSE IF command.len = 0
         THEN IF c.overflow_checks THEN Panic(c)
              ELSE LET pc == add_u16(c, c.program_counter, 255)
                   IN  set_program_counter(pc.c, pc.v)
         ELSE LET pc == add_u16(c, c.program_counter, command.len - 1)
              IN  set_program_counter(pc.c, pc.v)

\* The last HistLen entries of the history with one more.
Remember(h, entry) ==
    LET all == Append(h, entry)
    IN  IF Len(all) <= HistLen THEN all
        ELSE SubSeq(all, Len(all) - HistLen + 1, Len(all))

\* What is remembered of a dispatched instruction: where it was, its opcode
\* and mnemonic, and the registers before it.
Entry(opscode, instruction) ==
    [at |-> program_counter, opscode |-> opscode, instruction |-> instruction,
     register_a |-> register_a, register_x |-> register_x,
     register_y |-> register_y, status |-> status,
     stack_pointer |-> stack_pointer]

\* The CPU c becomes the state.
Commit(c, entry) ==
    /\ register_a' = c.register_a
    /\ register_x' = c.register_x
    /\ register_y' = c.register_y
    /\ status' = c.status
    /\ program_counter' = c.program_counter
    /\ stack_pointer' = c.stack_pointer
    /\ memory' = c.memory
    /\ run_state' = IF c.panicked THEN "panicked"
                    ELSE IF c.returned THEN "returned" ELSE "running"
    /\ hist' = Remember(hist, entry)
    /\ input' = input

\* The end of the iteration: c is the CPU after the arm.
Finish(c, opscode, command) ==
    \E after \in {advance(c, command)} :
        Commit(after, Entry(opscode, command.instruction))

\* The instruction the next iteration dispatches, read off the state: the
\* mnemonic of the row of the byte at program_counter, "none" when the
\* byte is no code of the table, "panic" when the fetch is past the array.
NextInstruction ==
    IF program_counter >= MEMORY_LEN THEN "panic"
    ELSE OpCode_get(Cell(memory, program_counter)).instruction

(* One action for each way an iteration of the loop goes.  In each, f is   *)
(* the fetch of the iteration (the CPU after it and the opcode) and        *)
(* command the row the table gives for the opcode.                         *)

\* The opcode fetch itself fails: the index is past the array.
FetchPanic ==
    /\ run_state = "running"
    /\ NextInstruction = "panic"
    /\ \E overflow_checks \in BOOLEAN :
          \E f \in {fetch(CPU(overflow_checks))} :
              /\ f.c.panicked
              /\ Commit(f.c, Entry(-1, "none"))

\* DecodeFailure without the panic: the byte is skipped and the loop goes on.
DecodeFailure_skips_the_byte ==
    /\ run_state = "running"
    /\ NextInstruction = "none"
    /\ \E overflow_checks \in BOOLEAN :
          \E f \in {fetch(CPU(overflow_checks))} :
              /\ ~f.c.panicked
              /\ OpCode_get(f.v) = None
              /\ Commit(f.c, Entry(f.v, "none"))

\* panic!("no command found for opcode")
DecodeFailure ==
    /\ run_state = "running"
    /\ NextInstruction = "none"
    /\ \E overflow_checks \in BOOLEAN :
          \E f \in {fetch(CPU(overflow_checks))} :
              /\ ~f.c.panicked
              /\ OpCode_get(f.v) = None
              /\ Commit(Panic(f.c), Entry(f.v, "none"))

\* An instruction of the table that has no arm: `_ => todo!()`.
Todo ==
    /\ run_state = "running"
    /\ NextInstruction \notin ArmInstructions \cup {"none", "panic"}
    /\ \E overflow_checks \in BOOLEAN :
          \E f \in {fetch(CPU(overflow_checks))} :
              \E command \in {OpCode_get(f.v)} :
                  /\ ~f.c.panicked
                  /\ command # None
                  /\ command.instruction \notin ArmInstructions
                  /\ Finish(ExecTodo(f.c, command), f.v, command)

ADC ==
    /\ run_state = "running"
    /\ NextInstruction = "ADC"
    /\ \E overflow_checks \in BOOLEAN :
          \E f \in {fetch(CPU(overflow_checks))} :
              \E command \in {OpCode_get(f.v)} :
                  /\ ~f.c.panicked
                  /\ command.instruction = "ADC"
                  /\ Finish(ExecADC(f.c, command), f.v, command)

ASL ==
    /\ run_state = "running"
    /\ NextInstruction = "ASL"
    /\ \E overflow_checks \in BOOLEAN :
          \E f \in {fetch(CPU(overflow_checks))} :
              \E command \in {OpCode_get(f.v)} :
                  /\ ~f.c.panicked
                  /\ command.instruction = "ASL"
                  /\ Finish(ExecASL(f.c, command), f.v, command)

AND ==
    /\ run_state = "running"
    /\ NextInstruction = "AND"
    /\ \E overflow_checks \in BOOLEAN :
          \E f \in {fetch(CPU(overflow_checks))} :
              \E command \in {OpCode_get(f.v)} :
                  /\ ~f.c.panicked
                  /\ command.instruction = "AND"
                  /\ Finish(ExecAND(f.c, command), f.v, command)

BIT ==
    /\ run_state = "running"
    /\ NextInstruction = "BIT"
    /\ \E overflow_checks \in BOOLEAN :
          \E f \in {fetch(CPU(overflow_checks))} :
              \E command \in {OpCode_get(f.v)} :
                  /\ ~f.c.panicked
                  /\ command.instruction = "BIT"
                  /\ Finish(ExecBIT(f.c, command), f.v, command)

BRK ==
    /\ run_state = "running"
    /\ NextInstruction = "BRK"
    /\ \E overflow_checks \in BOOLEAN :
          \E f \in {fetch(CPU(overflow_checks))} :
              \E command \in {OpCode_get(f.v)} :
                  /\ ~f.c.panicked
                  /\ command.instruction = "BRK"
                  /\ Finish(ExecBRK(f.c, command), f.v, command)

CLC ==
    /\ run_state = "running"
    /\ NextInstruction = "CLC"
    /\ \E overflow_checks \in BOOLEAN :
          \E f \in {fetch(CPU(overflow_checks))} :
              \E command \in {OpCode_get(f.v)} :
                  /\ ~f.c.panicked
                  /\ command.instruction = "CLC"
                  /\ Finish(ExecCLC(f.c, command), f.v, command)

CLI ==
    /\ run_state = "running"
    /\ NextInstruction = "CLI"
    /\ \E overflow_checks \in BOOLEAN :
          \E f \in {fetch(CPU(overflow_checks))} :
              \E command \in {OpCode_get(f.v)} :
                  /\ ~f.c.panicked
                  /\ command.instruction = "CLI"
                  /\ Finish(ExecCLI(f.c, command), f.v, command)

CLV ==
    /\ run_state = "running"
    /\ NextInstruction = "CLV"
    /\ \E overflow_checks \in BOOLEAN :
          \E f \in {fetch(CPU(overflow_checks))} :
              \E command \in {OpCode_get(f.v)} :
                  /\ ~f.c.panicked
                  /\ command.instruction = "CLV"
                  /\ Finish(ExecCLV(f.c, command), f.v, command)

CMP ==
    /\ run_state = "running"
    /\ NextInstruction = "CMP"
    /\ \E overflow_checks \in BOOLEAN :
          \E f \in {fetch(CPU(overflow_checks))} :
              \E command \in {OpCode_get(f.v)} :
                  /\ ~f.c.panicked
                  /\ command.instruction = "CMP"
                  /\ Finish(ExecCMP(f.c, command), f.v, command)

CPX ==
    /\ run_state = "running"
    /\ NextInstruction = "CPX"
    /\ \E overflow_checks \in BOOLEAN :
          \E f \in {fetch(CPU(overflow_checks))} :
              \E command \in {OpCode_get(f.v)} :
                  /\ ~f.c.panicked
                  /\ command.instruction = "CPX"
                  /\ Finish(ExecCPX(f.c, command), f.v, command)

CPY ==
    /\ run_state = "running"
    /\ NextInstruction = "CPY"
    /\ \E overflow_checks \in BOOLEAN :
          \E f \in {fetch(CPU(overflow_checks))} :
              \E command \in {OpCode_get(f.v)} :
                  /\ ~f.c.panicked
                  /\ command.instruction = "CPY"
                  /\ Finish(ExecCPY(f.c, command), f.v, command)

DEC ==
    /\ run_state = "running"
    /\ NextInstruction = "DEC"
    /\ \E overflow_checks \in BOOLEAN :
          \E f \in {fetch(CPU(overflow_checks))} :
              \E command \in {OpCode_get(f.v)} :
                  /\ ~f.c.panicked
                  /\ command.instruction = "DEC"
                  /\ Finish(ExecDEC(f.c, command), f.v, command)

DEX ==
    /\ run_state = "running"
    /\ NextInstruction = "DEX"
    /\ \E overflow_checks \in BOOLEAN :
          \E f \in {fetch(CPU(overflow_checks))} :
              \E command \in {OpCode_get(f.v)} :
                  /\ ~f.c.panicked
                  /\ command.instruction = "DEX"
                  /\ Finish(ExecDEX(f.c, command), f.v, command)

DEY ==
    /\ run_state = "running"
    /\ NextInstruction = "DEY"
    /\ \E overflow_checks \in BOOLEAN :
          \E f \in {fetch(CPU(overflow_checks))} :
              \E command \in {OpCode_get(f.v)} :
                  /\ ~f.c.panicked
                  /\ command.instruction = "DEY"
                  /\ Finish(ExecDEY(f.c, command), f.v, command)

EOR ==
    /\ run_state = "running"
    /\ NextInstruction = "EOR"
    /\ \E overflow_checks \in BOOLEAN :
          \E f \in {fetch(CPU(overflow_checks))} :
              \E command \in {OpCode_get(f.v)} :
                  /\ ~f.c.panicked
                  /\ command.instruction = "EOR"
                  /\ Finish(ExecEOR(f.c, command), f.v, command)

INC ==
    /\ run_state = "running"
    /\ NextInstruction = "INC"
    /\ \E overflow_checks \in BOOLEAN :
          \E f \in {fetch(CPU(overflow_checks))} :
              \E command \in {OpCode_get(f.v)} :
                  /\ ~f.c.panicked
                  /\ command.instruction = "INC"
                  /\ Finish(ExecINC(f.c, command), f.v, command)

INX ==
    /\ run_state = "running"
    /\ NextInstruction = "INX"
    /\ \E overflow_checks \in BOOLEAN :
          \E f \in {fetch(CPU(overflow_checks))} :
              \E command \in {OpCode_get(f.v)} :
                  /\ ~f.c.panicked
                  /\ command.instruction = "INX"
                  /\ Finish(ExecINX(f.c, command), f.v, command)

INY ==
    /\ run_state = "running"
    /\ NextInstruction = "INY"
    /\ \E overflow_checks \in BOOLEAN :
          \E f \in {fetch(CPU(overflow_checks))} :
              \E command \in {OpCode_get(f.v)} :
                  /\ ~f.c.panicked
                  /\ command.instruction = "INY"
                  /\ Finish(ExecINY(f.c, command), f.v, command)

JMP ==
    /\ run_state = "running"
    /\ NextInstruction = "JMP"
    /\ \E overflow_checks \in BOOLEAN :
          \E f \in {fetch(CPU(overflow_checks))} :
              \E command \in {OpCode_get(f.v)} :
                  /\ ~f.c.panicked
                  /\ command.instruction = "JMP"
                  /\ Finish(ExecJMP(f.c, command), f.v, command)

JSR ==
    /\ run_state = "running"
    /\ NextInstruction = "JSR"
    /\ \E overflow_checks \in BOOLEAN :
          \E f \in {fetch(CPU(overflow_checks))} :
              \E command \in {OpCode_get(f.v)} :
                  /\ ~f.c.panicked
                  /\ command.instruction = "JSR"
                  /\ Finish(ExecJSR(f.c, command), f.v, command)

LDA ==
    /\ run_state = "running"
    /\ NextInstruction = "LDA"
    /\ \E overflow_checks \in BOOLEAN :
          \E f \in {fetch(CPU(overflow_checks))} :
              \E command \in {OpCode_get(f.v)} :
                  /\ ~f.c.panicked
                  /\ command.instruction = "LDA"
                  /\ Finish(ExecLDA(f.c, command), f.v, command)

LDX ==
    /\ run_state = "running"
    /\ NextInstruction = "LDX"
    /\ \E overflow_checks \in BOOLEAN :
          \E f \in {fetch(CPU(overflow_checks))} :
              \E command \in {OpCode_get(f.v)} :
                  /\ ~f.c.panicked
                  /\ command.instruction = "LDX"
                  /\ Finish(ExecLDX(f.c, command), f.v, command)

LDY ==
    /\ run_state = "running"
    /\ NextInstruction = "LDY"
    /\ \E overflow_checks \in BOOLEAN :
          \E f \in {fetch(CPU(overflow_checks))} :
              \E command \in {OpCode_get(f.v)} :
                  /\ ~f.c.panicked
                  /\ command.instruction = "LDY"
                  /\ Finish(ExecLDY(f.c, command), f.v, command)

LSR ==
    /\ run_state = "running"
    /\ NextInstruction = "LSR"
    /\ \E overflow_checks \in BOOLEAN :
          \E f \in {fetch(CPU(overflow_checks))} :
              \E command \in {OpCode_get(f.v)} :
                  /\ ~f.c.panicked
                  /\ command.instruction = "LSR"
                  /\ Finish(ExecLSR(f.c, command), f.v, command)

NOP ==
    /\ run_state = "running"
    /\ NextInstruction = "NOP"
    /\ \E overflow_checks \in BOOLEAN :
          \E f \in {fetch(CPU(overflow_checks))} :
              \E command \in {OpCode_get(f.v)} :
                  /\ ~f.c.panicked
                  /\ command.instruction = "NOP"
                  /\ Finish(ExecNOP(f.c, command), f.v, command)

ORA ==
    /\ run_state = "running"
    /\ NextInstruction = "ORA"
    /\ \E overflow_checks \in BOOLEAN :
          \E f \in {fetch(CPU(overflow_checks))} :
              \E command \in {OpCode_get(f.v)} :
                  /\ ~f.c.panicked
                  /\ command.instruction = "ORA"
                  /\ Finish(ExecORA(f.c, command), f.v, command)

PHA ==
    /\ run_state = "running"
    /\ NextInstruction = "PHA"
    /\ \E overflow_checks \in BOOLEAN :
          \E f \in {fetch(CPU(overflow_checks))} :
              \E command \in {OpCode_get(f.v)} :
                  /\ ~f.c.panicked
                  /\ command.instruction = "PHA"
                  /\ Finish(ExecPHA(f.c, command), f.v, command)

PHP ==
    /\ run_state = "running"
    /\ NextInstruction = "PHP"
    /\ \E overflow_checks \in BOOLEAN :
          \E f \in {fetch(CPU(overflow_checks))} :
              \E command \in {OpCode_get(f.v)} :
                  /\ ~f.c.panicked
                  /\ command.instruction = "PHP"
                  /\ Finish(ExecPHP(f.c, command), f.v, command)

PLA ==
    /\ run_state = "running"
    /\ NextInstruction = "PLA"
    /\ \E overflow_checks \in BOOLEAN :
          \E f \in {fetch(CPU(overflow_checks))} :
              \E command \in {OpCode_get(f.v)} :
                  /\ ~f.c.panicked
                  /\ command.instruction = "PLA"
                  /\ Finish(ExecPLA(f.c, command), f.v, command)

PLP ==
    /\ run_state = "running"
    /\ NextInstruction = "PLP"
    /\ \E overflow_checks \in BOOLEAN :
          \E f \in {fetch(CPU(overflow_checks))} :
              \E command \in {OpCode_get(f.v)} :
                  /\ ~f.c.panicked
                  /\ command.instruction = "PLP"
                  /\ Finish(ExecPLP(f.c, command), f.v, command)

ROL ==
    /\ run_state = "running"
    /\ NextInstruction = "ROL"
    /\ \E overflow_checks \in BOOLEAN :
          \E f \in {fetch(CPU(overflow_checks))} :
              \E command \in {OpCode_get(f.v)} :
                  /\ ~f.c.panicked
                  /\ command.instruction = "ROL"
                  /\ Finish(ExecROL(f.c, command), f.v, command)

\* No row of the table carries the instruction ROR (the rows of the ROR
\* opcodes carry ROL), so this arm is never dispatched; it is no disjunct
\* of Next.
ROR ==
    /\ run_state = "running"
    /\ NextInstruction = "ROR"
    /\ \E overflow_checks \in BOOLEAN :
          \E f \in {fetch(CPU(overflow_checks))} :
              \E command \in {OpCode_get(f.v)} :
                  /\ ~f.c.panicked
                  /\ command.instruction = "ROR"
                  /\ Finish(ExecROR(f.c, command), f.v, command)

RTI ==
    /\ run_state = "running"
    /\ NextInstruction = "RTI"
    /\ \E overflow_checks \in BOOLEAN :
          \E f \in {fetch(CPU(overflow_checks))} :
              \E command \in {OpCode_get(f.v)} :
                  /\ ~f.c.panicked
                  /\ command.instruction = "RTI"
                  /\ Finish(ExecRTI(f.c, command), f.v, command)

RTS ==
    /\ run_state = "running"
    /\ NextInstruction = "RTS"
    /\ \E overflow_checks \in BOOLEAN :
          \E f \in {fetch(CPU(overflow_checks))} :
              \E command \in {OpCode_get(f.v)} :
                  /\ ~f.c.panicked
                  /\ command.instruction = "RTS"
                  /\ Finish(ExecRTS(f.c, command), f.v, command)

SBC ==
    /\ run_state = "running"
    /\ NextInstruction = "SBC"
    /\ \E overflow_checks \in BOOLEAN :
          \E f \in {fetch(CPU(overflow_checks))} :
              \E command \in {OpCode_get(f.v)} :
                  /\ ~f.c.panicked
                  /\ command.instruction = "SBC"
                  /\ Finish(ExecSBC(f.c, command), f.v, command)

SEC ==
    /\ run_state = "running"
    /\ NextInstruction = "SEC"
    /\ \E overflow_checks \in BOOLEAN :
          \E f \in {fetch(CPU(overflow_checks))} :
              \E command \in {OpCode_get(f.v)} :
                  /\ ~f.c.panicked
                  /\ command.instruction = "SEC"
                  /\ Finish(ExecSEC(f.c, command), f.v, command)

SEI ==
    /\ run_state = "running"
    /\ NextInstruction = "SEI"
    /\ \E overflow_checks \in BOOLEAN :
          \E f \in {fetch(CPU(overflow_checks))} :
              \E command \in {OpCode_get(f.v)} :
                  /\ ~f.c.panicked
                  /\ command.instruction = "SEI"
                  /\ Finish(ExecSEI(f.c, command), f.v, command)

STA ==
    /\ run_state = "running"
    /\ NextInstruction = "STA"
    /\ \E overflow_checks \in BOOLEAN :
          \E f \in {fetch(CPU(overflow_checks))} :
              \E command \in {OpCode_get(f.v)} :
                  /\ ~f.c.panicked
                  /\ command.instruction = "STA"
                  /\ Finish(ExecSTA(f.c, command), f.v, command)

STX ==
    /\ run_state = "running"
    /\ NextInstruction = "STX"
    /\ \E overflow_checks \in BOOLEAN :
          \E f \in {fetch(CPU(overflow_checks))} :
              \E command \in {OpCode_get(f.v)} :
                  /\ ~f.c.panicked
                  /\ command.instruction = "STX"
                  /\ Finish(ExecSTX(f.c, command), f.v, command)

STY ==
    /\ run_state = "running"
    /\ NextInstruction = "STY"
    /\ \E overflow_checks \in BOOLEAN :
          \E f \in {fetch(CPU(overflow_checks))} :
              \E command \in {OpCode_get(f.v)} :
                  /\ ~f.c.panicked
                  /\ command.instruction = "STY"
                  /\ Finish(ExecSTY(f.c, command), f.v, command)

TAX ==
    /\ run_state = "running"
    /\ NextInstruction = "TAX"
    /\ \E overflow_checks \in BOOLEAN :
          \E f \in {fetch(CPU(overflow_checks))} :
              \E command \in {OpCode_get(f.v)} :
                  /\ ~f.c.panicked
                  /\ command.instruction = "TAX"
                  /\ Finish(ExecTAX(f.c, command), f.v, command)

TAY ==
    /\ run_state = "running"
    /\ NextInstruction = "TAY"
    /\ \E overflow_checks \in BOOLEAN :
          \E f \in {fetch(CPU(overflow_checks))} :
              \E command \in {OpCode_get(f.v)} :
                  /\ ~f.c.panicked
                  /\ command.instruction = "TAY"
                  /\ Finish(ExecTAY(f.c, command), f.v, command)

TSX ==
    /\ run_state = "running"
    /\ NextInstruction = "TSX"
    /\ \E overflow_checks \in BOOLEAN :
          \E f \in {fetch(CPU(overflow_checks))} :
              \E command \in {OpCode_get(f.v)} :
                  /\ ~f.c.panicked
                  /\ command.instruction = "TSX"
                  /\ Finish(ExecTSX(f.c, command), f.v, command)

TXA ==
    /\ run_state = "running"
    /\ NextInstruction = "TXA"
    /\ \E overflow_checks \in BOOLEAN :
          \E f \in {fetch(CPU(overflow_checks))} :
              \E command \in {OpCode_get(f.v)} :
                  /\ ~f.c.panicked
                  /\ command.instruction = "TXA"
                  /\ Finish(ExecTXA(f.c, command), f.v, command)

\* One iteration of the loop of CPU::run.
Next ==
    \/ FetchPanic \/ DecodeFailure \/ Todo
    \/ ADC \/ ASL \/ AND \/ BIT \/ BRK \/ CLC \/ CLI \/ CLV \/ CMP \/ CPX
    \/ CPY \/ DEC \/ DEX \/ DEY \/ EOR \/ INC \/ INX \/ INY \/ JMP \/ JSR
    \/ LDA \/ LDX \/ LDY \/ LSR \/ NOP \/ ORA \/ PHA \/ PHP \/ PLA \/ PLP
    \/ ROL \/ RTI \/ RTS \/ SBC \/ SEC \/ SEI \/ STA \/ STX \/ STY \/ TAX
    \/ TAY \/ TSX \/ TXA

----------------------------------------------------------------------------
(* The configurations a run starts from: the cells a host or a test writes *)
(* before the load, the program, and the public register fields it sets    *)
(* after the reset.                                                        *)

\* The cells written before the load: the ends of the zero page, of the
\* stack page and of page 2, each with a non-zero byte of its own.
Data ==
    [addr \in (\h00 .. \h12) \cup (\hFD .. \h102) \cup (\h1FD .. \h212)
               \cup (\h2FD .. \h302) |->
        ((addr * 37 + 11) % 255) + 1]

\* The operand bytes tried after an opcode of the table.
Operands(row) ==
    CASE row.instruction = "JMP" ->
            {<<\h10, \h02>>, <<\hFF, \h02>>, <<\hFD, \hFF>>,
             <<\hFF, \hFF>>}
      [] row.addressing_mode = "Immediate" ->
            {<<m>> : m \in {\h00, \h01, \h40, \h7F, \h80, \hFF}}
      [] row.addressing_mode \in {"ZeroPage", "ZeroPageX", "ZeroPageY",
                                  "IndirectX", "IndirectY"} ->
            {<<\h10>>, <<\hFF>>}
      [] row.addressing_mode = "Absolute" ->
            {<<\h10, \h02>>, <<\hFF, \h02>>}
      [] row.addressing_mode \in {"AbsoluteX", "AbsoluteY"} ->
            {<<\h10, \h02>>, <<\hFF, \h02>>, <<\hFF, \hFF>>}
      [] row.instruction \in {"BCC", "BCS", "BEQ", "BNE", "BMI", "BPL",
                              "BVC", "BVS"} -> {<<\h05>>, <<\hFB>>}
      [] OTHER -> {<<>>}

\* Register files set after the reset.
RegFiles ==
    {[register_a |-> \h00, register_x |-> \h00, register_y |-> \h00,
      status |-> \h00, stack_pointer |-> \hFF],
     [register_a |-> \h80, register_x |-> \h01, register_y |-> \hFF,
      status |-> \h41, stack_pointer |-> \hFF],
     [register_a |-> \hFF, register_x |-> \hFF, register_y |-> \h01,
      status |-> \hC3, stack_pointer |-> \h00],
     [register_a |-> \h7F, register_x |-> \h02, register_y |-> \h02,
      status |-> \h82, stack_pointer |-> \h80]}

\* A configuration: the program, the cells written over the data image
\* before the load, and the fields set after the reset.
Config(kind, program, cells, regs) ==
    [kind |-> kind, program |-> program, cells |-> cells, regs |-> regs]

\* A register file.
Regs(a, x, y, p, sp) ==
    [register_a |-> a, register_x |-> x, register_y |-> y, status |-> p,
     stack_pointer |-> sp]

\* The codes tried at 0x8000: every code of the table and two that are none.
EachCodes == {code \in 0 .. 255 : OpCode_get(code) # None} \cup {\h02, \hFF}

\* One instruction of the table, or a byte that is no opcode, at 0x8000.
ConfigsEach ==
    UNION {{Config("each", <<code>> \o ops, <<>>, regs) :
                ops \in Operands(OpCode_get(code)), regs \in RegFiles} :
           code \in EachCodes}
    \cup {Config("each", <<code, \h10>>, (\h10 :> \hFF) @@ (\h11 :> \hFF),
                 regs) :
            code \in {c \in EachCodes \ {\h02, \hFF} :
                         OpCode_get(c).addressing_mode = "IndirectY"},
            regs \in RegFiles}

\* JSR at 0x8000 to a target that holds an RTS.
ConfigsCall ==
    {Config("call", program, <<>>, regs) :
        program \in {<<\h20, \h05, \h80, \hEA, \h00, \h60, \h00, \h60>>,
                     <<\h20, \h04, \h80, \h00, \h60, \h00, \h00>>,
                     <<\h20, \h03, \h80, \h60, \hEA, \hEA>>},
        regs \in RegFiles}
    \cup {Config("return", <<\h60>>, (\h1FE :> \hFF) @@ (\h1FF :> \hFF),
                 Regs(0, 0, 0, 0, \hFD))}

\* (LDA #b[i]; PHA) for i = 1 .. k, then k times PLA.
PushProgram(k, b) ==
    [i \in 1 .. 4 * k |->
        IF i > 3 * k THEN \h68
        ELSE CASE (i - 1) % 3 = 0 -> \hA9
               [] (i - 1) % 3 = 1 -> b[((i - 1) \div 3) + 1]
               [] OTHER -> \h48]

\* The number of cells of the stack page the 8-bit stack pointer reaches.
StackDepth == STACK_RESET + 1

\* The small programs push every choice of a few bytes, from two stack
\* pointers; the long ones fill the stack page, and one byte more.
ConfigsPush ==
    UNION {{Config("push", PushProgram(k, b), <<>>,
                   Regs(\h55, 0, 0, 0, sp)) :
                b \in [1 .. k -> {\h00, \h80, \hFF}], sp \in {\hFF, \h01}} :
           k \in 1 .. MaxPush}
    \cup {Config("push", PushProgram(k, [i \in 1 .. k |-> i % 251]),
                 <<>>, Regs(\h55, 0, 0, 0, \hFF)) :
             k \in {StackDepth, StackDepth + 1}}

\* ADC #0; SBC #0 from every accumulator, with the carry set.
ConfigsRoundTrip ==
    {Config("roundtrip", <<\h69, \h00, \hE9, \h00>>, <<>>,
            Regs(v, 0, 0, p, \hFF)) :
        v \in 0 .. 255, p \in {CARRY, CARRY + OVERFLOW + NEGATIVE}}

\* ADC #m and SBC #m.
ConfigsAlu ==
    LET samples == {\h00, \h01, \h02, \h3F, \h40, \h41, \h7E, \h7F, \h80,
                    \h81, \hBF, \hC0, \hFE, \hFF}
    IN  {Config("alu", <<code, m>>, <<>>, Regs(a, 0, 0, p, \hFF)) :
            code \in {\h69, \hE9}, m \in samples, a \in samples,
            p \in {0, CARRY, ZERO + OVERFLOW + NEGATIVE}}

\* CMP #m, CPX #m and CPY #m with the register compared set to r.
ConfigsCompare ==
    LET samples == {\h00, \h01, \h7F, \h80, \h81, \hFF}
    IN  {Config("compare", <<code, m>>, <<>>,
                Regs(IF code = \hC9 THEN r ELSE \h33,
                     IF code = \hE0 THEN r ELSE \h33,
                     IF code = \hC0 THEN r ELSE \h33, p, \hFF)) :
            code \in {\hC9, \hE0, \hC0}, m \in samples, r \in samples,
            p \in {0, CARRY + ZERO + OVERFLOW + NEGATIVE}}

\* BIT $20 and BIT $0220 with the cell tested set to m.
ConfigsBit ==
    LET samples == {\h00, \h01, \h3F, \h40, \h80, \hC0, \hFF}
    IN  {Config("bit", program, (\h20 :> m) @@ (\h220 :> m),
                Regs(a, 0, 0, p, \hFF)) :
            program \in {<<\h24, \h20>>, <<\h2C, \h20, \h02>>},
            m \in samples, a \in samples,
            p \in {0, ZERO + OVERFLOW + NEGATIVE}}

\* Every value of the status register: CpuStatus has no flag for bit 5.
StatusValues == {p \in 0 .. 255 : BitAnd(p, CpuStatus_all) = p}

\* PHP and then PLP from every status; PLP and RTI of every byte on top of
\* the stack.
ConfigsFlags ==
    {Config("php", <<\h08, \h28>>, <<>>, Regs(0, 0, 0, p, sp)) :
        p \in StatusValues, sp \in {\hFF, \h00}}
    \cup {Config("plp", <<\h28>>, (\h1FF :> byte), Regs(0, 0, 0, p, \hFE)) :
        byte \in 0 .. 255, p \in {0, BREAK + CARRY}}
    \cup {Config("rti", <<\h40>>, (\h1FD :> byte), Regs(0, 0, 0, p, \hFC)) :
        byte \in 0 .. 255, p \in {0, BREAK + CARRY}}

\* One instruction at the top of memory. The code that runs is written
\* before the load at 0xFFE8 and PC is assigned after the reset: it stores
\* NOP at 0xFFFC and 0xFFFD, where the load has put the reset vector, and
\* the opcode at 0xFFFC, 0xFFFD or 0xFFFE, and goes on through NOPs into it.
ConfigsTop ==
    {Config("top", <<>>,
            LET stores == <<\hA9, \hEA, \h8D, \hFC, \hFF, \h8D, \hFD, \hFF,
                            \hA9, code, \h8D, at % 256, \hFF>>
            IN  [a \in (\hFFE8 .. \hFFFB) \cup {\hFFFE} |->
                    IF a = \hFFFE THEN \h02
                    ELSE IF a - \hFFE8 < Len(stores)
                         THEN stores[a - \hFFE8 + 1]
                         ELSE \hEA],
            [register_a |-> 0, register_x |-> 0, register_y |-> 0,
             status |-> 0, stack_pointer |-> \hFF,
             program_counter |-> \hFFE8]) :
        code \in EachCodes, at \in {\hFFFC, \hFFFD, \hFFFE}}

Configs ==
    ConfigsEach \cup ConfigsCall \cup ConfigsPush \cup ConfigsRoundTrip
    \cup ConfigsAlu \cup ConfigsCompare \cup ConfigsBit \cup ConfigsFlags
    \cup ConfigsTop

\* The memory after the writes made before the load: the data image with
\* the cells of the configuration written over it.
Written(cells) ==
    LET value(addr) ==
            IF addr \in DOMAIN cells THEN cells[addr] ELSE Data[addr]
    IN  [addr \in {a \in DOMAIN cells \cup DOMAIN Data : value(a) # 0} |->
            value(addr)]

Modify(c, regs) ==
    [f \in DOMAIN c |-> IF f \in DOMAIN regs THEN regs[f] ELSE c[f]]

\* CPU::default(), the writes before the load, load(program), reset(), and
\* the fields set after it.
Start(cfg) ==
    Modify(reset(load([CPU_default EXCEPT !.memory = Written(cfg.cells)],
                      cfg.program)),
           cfg.regs)

Init ==
    \E cfg \in Configs :
        LET c == Start(cfg)
        IN  /\ ~c.panicked
            /\ register_a = c.register_a
            /\ register_x = c.register_x
            /\ register_y = c.register_y
            /\ status = c.status
            /\ program_counter = c.program_counter
            /\ stack_pointer = c.stack_pointer
            /\ memory = c.memory
            /\ run_state = "running"
            /\ hist = <<>>
            /\ input = cfg

Spec == Init /\ [][Next]_vars

----------------------------------------------------------------------------
(* The functions that come before run(): mem_read, mem_write,             *)
(* mem_read_u16, mem_write_u16, load and reset called on a CPU::default()  *)
(* whose public fields may have been assigned, as the tests of cpu.rs call *)
(* them. hist holds one entry per call: the function, its arguments and    *)
(* the value it returned. A call that panics ends the behaviour.           *)

InitBus ==
    \E regs \in {<<>>, Regs(\h7F, \h02, \hFE, \hC3, \h80)} :
        LET c == Modify(CPU_default, regs)
        IN  /\ register_a = c.register_a
            /\ register_x = c.register_x
            /\ register_y = c.register_y
            /\ status = c.status
            /\ program_counter = c.program_counter
            /\ stack_pointer = c.stack_pointer
            /\ memory = c.memory
            /\ run_state = "running"
            /\ hist = <<>>
            /\ input = [kind |-> "bus"]

\* The CPU c after a call becomes the state, and the call is remembered.
BusCommit(c, op, addr, data, v) ==
    /\ memory' = c.memory
    /\ run_state' = IF c.panicked THEN "panicked" ELSE "running"
    /\ hist' = Append(hist, [op |-> op, addr |-> addr, data |-> data,
                             v |-> v])
    /\ UNCHANGED <<register_a, register_x, register_y, status,
                   program_counter, stack_pointer, input>>

MemRead ==
    /\ run_state = "running"
    /\ Len(hist) < MaxBusOps
    /\ \E overflow_checks \in BOOLEAN :
          \E addr \in {\h00FF, \hFFFD, \hFFFE, \hFFFF} :
              \E r \in {mem_read(CPU(overflow_checks), addr)} :
                  BusCommit(r.c, "mem_read", addr, 0, r.v)

MemWrite ==
    /\ run_state = "running"
    /\ Len(hist) < MaxBusOps
    /\ \E overflow_checks \in BOOLEAN :
          \E addr \in {\h00FF, \hFFFD, \hFFFE, \hFFFF} :
              \E data \in {\h00, \h9C} :
                  BusCommit(mem_write(CPU(overflow_checks), addr, data),
                            "mem_write", addr, data, 0)

MemReadU16 ==
    /\ run_state = "running"
    /\ Len(hist) < MaxBusOps
    /\ \E overflow_checks \in BOOLEAN :
          \E pos \in {\h00FF, \hFFFD, \hFFFE, \hFFFF} :
              \E r \in {mem_read_u16(CPU(overflow_checks), pos)} :
                  BusCommit(r.c, "mem_read_u16", pos, 0, r.v)

MemWriteU16 ==
    /\ run_state = "running"
    /\ Len(hist) < MaxBusOps
    /\ \E overflow_checks \in BOOLEAN :
          \E pos \in {\h00FF, \hFFFD, \hFFFE, \hFFFF} :
              \E data \in {\h1234, \h00FF} :
                  BusCommit(mem_write_u16(CPU(overflow_checks), pos, data),
                            "mem_write_u16", pos, data, 0)

\* load(program) of a slice of slice.len bytes that are zero except at the
\* offsets of slice.cells.
Load ==
    /\ run_state = "running"
    /\ Len(hist) <= MaxBeforeLoad
    /\ \E slice \in {[len |-> 0, cells |-> <<>>],
                      [len |-> 3, cells |-> (0 :> \hA5) @@ (1 :> \h10)],
                      [len |-> 5, cells |-> (0 :> \hA9) @@ (1 :> \hC0)
                                            @@ (2 :> \hAA) @@ (3 :> \hE8)],
                      [len |-> \h7FFC, cells |-> (\h7FFB :> \hEA)],
                      [len |-> \h7FFD, cells |-> (\h7FFC :> \hEA)],
                      [len |-> \h8000, cells |-> (0 :> \hEA)]} :
          LET program == [i \in 1 .. slice.len |->
                             IF i - 1 \in DOMAIN slice.cells
                             THEN slice.cells[i - 1] ELSE 0] \o <<>>
          IN  BusCommit(load(CPU(TRUE), program),
                        "load", PROGRAM_START, slice, 0)

Reset ==
    /\ run_state = "running"
    /\ Len(hist) < MaxBusOps
    /\ \E overflow_checks \in BOOLEAN :
          \E c \in {reset(CPU(overflow_checks))} :
              /\ register_a' = c.register_a
              /\ register_x' = c.register_x
              /\ register_y' = c.register_y
              /\ status' = c.status
              /\ program_counter' = c.program_counter
              /\ stack_pointer' = c.stack_pointer
              /\ memory' = c.memory
              /\ run_state' = IF c.panicked THEN "panicked" ELSE "running"
              /\ hist' = Append(hist, [op |-> "reset", addr |-> RESET_VECTOR,
                                       data |-> 0, v |-> 0])
              /\ input' = input

NextBus ==
    MemRead \/ MemWrite \/ MemReadU16 \/ MemWriteU16 \/ Load \/ Reset

SpecBus == InitBus /\ [][NextBus]_vars

----------------------------------------------------------------------------
(* The host of main.rs: CPU::default(), load, reset and run_with_callback  *)
(* with the closure that handles the pending key events, writes a random   *)
(* byte to 0xFE and reads the screen. run_with_callback is the loop of     *)
(* run() with a call of the closure after each instruction that leaves     *)
(* the loop running. An entry of hist with the instruction "callback"      *)
(* holds the events and the random byte of one call of the closure.        *)

\* handle_user_input: the events polled, in order; Quit or Escape exits the
\* process (v), a key W, A, S or D writes its byte to 0xFF.
RECURSIVE handle_user_input(_, _)
handle_user_input(c, events) ==
    IF events = <<>> \/ c.panicked THEN Ret(c, FALSE)
    ELSE LET event == Head(events)
         IN  IF event \in {"Quit", "Escape"} THEN Ret(c, TRUE)
             ELSE handle_user_input(
                      CASE event = "W" -> mem_write(c, \hFF, \h77)
                        [] event = "A" -> mem_write(c, \hFF, \h73)
                        [] event = "S" -> mem_write(c, \hFF, \h61)
                        [] event = "D" -> mem_write(c, \hFF, \h64)
                        [] OTHER -> c,
                      Tail(events))

\* Instruction without the wait for the call of the closure.
Instruction_without_callback == NOP \/ LDA \/ STA \/ BRK

\* One iteration of the loop: an instruction of run(), fetched when no
\* call of the closure is due.
Instruction ==
    /\ IF hist = <<>> THEN TRUE
       ELSE hist[Len(hist)].instruction = "callback"
    /\ (NOP \/ LDA \/ STA \/ BRK)

\* The call of the closure after an instruction.
Callback ==
    /\ run_state = "running"
    /\ hist # <<>>
    /\ hist[Len(hist)].instruction # "callback"
    /\ \E events \in {<<>>, <<"W">>, <<"A">>, <<"S">>, <<"D">>, <<"Tab">>,
                       <<"Escape">>, <<"W", "D">>} :
          \E random \in {1, 15} :
              LET handled == handle_user_input(CPU(TRUE), events)
                  c == mem_write(handled.c, \hFE, random)
              IN  /\ memory' = IF handled.v THEN handled.c.memory
                                ELSE c.memory
                  /\ run_state' = IF handled.v THEN "exited" ELSE "running"
                  /\ hist' = Remember(hist,
                                 [at |-> program_counter, opscode |-> -1,
                                  instruction |-> "callback",
                                  register_a |-> register_a,
                                  register_x |-> register_x,
                                  register_y |-> register_y,
                                  status |-> status,
                                  stack_pointer |-> stack_pointer,
                                  events |-> events, random |-> random])
                  /\ UNCHANGED <<register_a, register_x, register_y, status,
                                 program_counter, stack_pointer, input>>

\* main(): a program that reads the key and the random byte.
InitHost ==
    \E cfg \in {Config("host", program, <<>>, <<>>) :
                    program \in {<<\hEA, \hA5, \hFF, \h8D, \h00, \h02,
                                   \hA5, \hFE, \h00>>,
                                 <<\hA5, \hFE, \h85, \hFF, \hA5, \hFF,
                                   \h00>>}} :
        LET c == Start(cfg)
        IN  /\ register_a = c.register_a
            /\ register_x = c.register_x
            /\ register_y = c.register_y
            /\ status = c.status
            /\ program_counter = c.program_counter
            /\ stack_pointer = c.stack_pointer
            /\ memory = c.memory
            /\ run_state = "running"
            /\ hist = <<>>
            /\ input = cfg

NextHost == Instruction \/ Callback

SpecHost == InitHost /\ [][NextHost]_vars

----------------------------------------------------------------------------
(* Properties of run().                                                    *)

\* The last instruction dispatched (when hist is not empty).
Last == hist[Len(hist)]

\* run() is in its loop and the next fetch reads an opcode of instruction.
Dispatching(instruction) ==
    run_state = "running" /\ NextInstruction = instruction

\* A flag of a status byte, as a boolean.
Flag(p, flag) == BitAnd(p, flag) # 0

\* The little-endian word at addr.
Word(addr) == Cell(memory, addr) + 256 * Cell(memory, addr + 1)

\* The byte the instruction about to be dispatched operates on, by its
\* addressing mode.
OperandByte ==
    LET f == fetch(CPU(FALSE))
    IN  operand(f.c, OpCode_get(f.v).addressing_mode).v

\* C1: run() returns only as the immediate result of fetching a BRK opcode:
\* every step is taken while run() has not returned (nothing is executed
\* after the BRK), a step ends in the return exactly when the opcode
\* fetched is BRK, and that step sets B and changes neither A, X, Y, SP,
\* another flag nor a byte of memory.
C1_BrkIsTheOnlyReturn ==
    [][/\ run_state # "returned"
       /\ (run_state' = "returned") <=> Dispatching("BRK")
       /\ Dispatching("BRK") =>
            /\ Cell(memory, program_counter) = \h00
            /\ status' = BitOr(status, BREAK)
            /\ register_a' = register_a
            /\ register_x' = register_x
            /\ register_y' = register_y
            /\ stack_pointer' = stack_pointer
            /\ memory' = memory]_vars

\* run() has returned from a BRK that followed another instruction and
\* found B clear.
C1_witness ==
    /\ run_state = "returned"
    /\ Len(hist) >= 2
    /\ Last.instruction = "BRK"
    /\ ~Flag(Last.status, BREAK)
    /\ Flag(status, BREAK)

\* The target of the JMP about to be dispatched, as the claim C2 states it.
JmpTarget ==
    LET ptr == Word(program_counter + 1)
    IN  IF Cell(memory, program_counter) = \h4C THEN ptr
        ELSE IF ptr % 256 = 255
             THEN Cell(memory, ptr) + 256 * Cell(memory, ptr - 255)
             ELSE Word(ptr)

\* C2: after a JMP the program counter is exactly the jump target (the
\* operand for JMP absolute; the word at the operand pointer, with the
\* page-wrap rule, for JMP indirect), with no further advance.
C2_JmpSetsPcToTarget ==
    [][(Dispatching("JMP") /\ run_state' = "running") =>
            program_counter' = JmpTarget]_vars

\* C3: the step after a JSR at address a whose call target holds an RTS
\* executes that RTS, returns control to a + 3 and leaves SP as it was
\* before the JSR.
C3_JsrThenRtsReturns ==
    [][(/\ run_state = "running"
        /\ hist # <<>>
        /\ Last.instruction = "JSR"
        /\ Cell(memory, Word(Last.at + 1)) = \h60) =>
            /\ program_counter = Word(Last.at + 1)
            /\ run_state' = "running"
            /\ program_counter' = Last.at + 3
            /\ stack_pointer' = Last.stack_pointer]_vars

Branches == {"BCC", "BCS", "BEQ", "BNE", "BMI", "BPL", "BVC", "BVS"}

\* The condition of a branch, on the status p.
BranchCondition(instruction, p) ==
    CASE instruction = "BCC" -> ~Flag(p, CARRY)
      [] instruction = "BCS" -> Flag(p, CARRY)
      [] instruction = "BEQ" -> Flag(p, ZERO)
      [] instruction = "BNE" -> ~Flag(p, ZERO)
      [] instruction = "BMI" -> Flag(p, NEGATIVE)
      [] instruction = "BPL" -> ~Flag(p, NEGATIVE)
      [] instruction = "BVC" -> ~Flag(p, OVERFLOW)
      [] instruction = "BVS" -> Flag(p, OVERFLOW)

\* C4: each branch executes without failure: from the opcode at a with the
\* signed offset o the program counter becomes (a + 2 + o) mod 65536 when
\* the condition of the branch holds and a + 2 otherwise, and no register,
\* flag or byte of memory changes.
C4_BranchesExecute ==
    [][(run_state = "running" /\ NextInstruction \in Branches) =>
            LET a == program_counter
                o == as_i8(Cell(memory, a + 1))
            IN  /\ run_state' = "running"
                /\ program_counter' =
                       IF BranchCondition(NextInstruction, status)
                       THEN (a + 2 + o) % 65536 ELSE a + 2
                /\ register_a' = register_a
                /\ register_x' = register_x
                /\ register_y' = register_y
                /\ stack_pointer' = stack_pointer
                /\ status' = status
                /\ memory' = memory]_vars

\* The number of pushes of a program of ConfigsPush, and the byte of its
\* i-th push.
Pushes == Len(input.program) \div 4

Pushed(i) == input.program[3 * i - 1]

\* The run of a program of ConfigsPush is after the j-th of its pops.
AfterPop(j) ==
    /\ input.kind = "push"
    /\ run_state = "running"
    /\ j \in 1 .. Pushes
    /\ program_counter = PROGRAM_START + 3 * Pushes + j
    /\ hist # <<>>
    /\ Last.instruction = "PLA"

\* The j-th pop returned the byte of push k - j + 1, and the last pop left
\* SP as it was before the pushes.
PopsReverseThePushes(j) ==
    /\ register_a = Pushed(Pushes - j + 1)
    /\ j = Pushes => stack_pointer = input.regs.stack_pointer

\* C5 as stated: for any k >= 1 and bytes b1..bk, k pushes (PHA) of b1..bk
\* followed by k pops (PLA) return bk..b1 in that order and leave SP at the
\* value it had before the pushes.
C5_PushesThenPopsAnyCount ==
    \A j \in {program_counter - PROGRAM_START - 3 * Pushes} :
        AfterPop(j) => PopsReverseThePushes(j)

\* C5, amended: the same for every k from 1 to 256, the number of cells of
\* the stack page; the pushes may wrap SP around the page.
C5_PushesThenPopsWithinThePage ==
    \A j \in {program_counter - PROGRAM_START - 3 * Pushes} :
        (AfterPop(j) /\ Pushes <= StackDepth) => PopsReverseThePushes(j)

\* The last pop of a program that filled the whole stack page.
C5_witness ==
    /\ AfterPop(Pushes)
    /\ Pushes = StackDepth
    /\ register_a = Pushed(1)
    /\ stack_pointer = input.regs.stack_pointer

\* The run of a program of ConfigsRoundTrip is after its SBC #0.
AfterRoundTrip ==
    /\ input.kind = "roundtrip"
    /\ run_state = "running"
    /\ program_counter = PROGRAM_START + 4
    /\ Len(hist) >= 2
    /\ Last.instruction = "SBC"
    /\ Last.at = PROGRAM_START + 2

\* C6 as stated: for every byte v, from A = v and C = 1, ADC #0 and then
\* SBC #0 end with A = v and C = 1.
C6_AdcSbcRoundTripEveryByte ==
    AfterRoundTrip =>
        /\ register_a = input.regs.register_a
        /\ Flag(status, CARRY)

\* C6, amended: the same for every byte v from 0 to 254; from v = 255 the
\* two instructions end with A = 0 and C = 1.
C6_AdcSbcRoundTripBelow255 ==
    AfterRoundTrip =>
        /\ register_a = IF input.regs.register_a = 255 THEN 0
                        ELSE input.regs.register_a
        /\ Flag(status, CARRY)

\* The round trip from A = 0x7F, whose ADC overflows into the sign bit.
C6_witness ==
    /\ AfterRoundTrip
    /\ input.regs.register_a = \h7F
    /\ register_a = \h7F
    /\ Flag(status, CARRY)

\* What the claim C7 says ADC leaves from accumulator a, operand m and
\* carry-in carry: the accumulator and the flags C, V, Z, N.
AdcResult(a, m, carry) ==
    LET sum == a + m + carry
        result == sum % 256
    IN  [register_a |-> result,
         C |-> sum > \hFF,
         V |-> BitAnd(BitAnd(BitXor(a, result), BitXor(m, result)), \h80) # 0,
         Z |-> result = 0,
         N |-> Bit(result, 7) = 1]

\* The accumulator and the flags C, V, Z, N of the next state.
AluOutcome ==
    [register_a |-> register_a',
     C |-> Flag(status', CARRY),
     V |-> Flag(status', OVERFLOW),
     Z |-> Flag(status', ZERO),
     N |-> Flag(status', NEGATIVE)]

\* C7: ADC leaves A = (A + M + C) mod 256, C iff the sum exceeds 0xFF,
\* V iff ((A ^ result) & (M ^ result) & 0x80) # 0 with A before the update,
\* and Z, N of the result; SBC leaves exactly what ADC leaves for the
\* operand M XOR 0xFF.
C7_AdcAndSbcArithmetic ==
    [][/\ (Dispatching("ADC") /\ run_state' = "running") =>
            AluOutcome = AdcResult(register_a, OperandByte, Bit(status, 0))
       /\ (Dispatching("SBC") /\ run_state' = "running") =>
            AluOutcome = AdcResult(register_a, BitXor(OperandByte, \hFF),
                                   Bit(status, 0))]_vars

\* An SBC #m with a borrow and a signed overflow: 0x80 - 0x01.
C7_witness ==
    /\ input.kind = "alu"
    /\ run_state = "running"
    /\ hist # <<>>
    /\ Last.instruction = "SBC"
    /\ Last.register_a = \h80
    /\ input.program[2] = \h01
    /\ Flag(Last.status, CARRY)
    /\ register_a = \h7F
    /\ Flag(status, OVERFLOW)
    /\ Flag(status, CARRY)

\* The register a compare instruction compares.
Compared(instruction) ==
    CASE instruction = "CMP" -> register_a
      [] instruction = "CPX" -> register_x
      [] instruction = "CPY" -> register_y

\* The flags of the status p other than those of the set flags.
OtherFlags(p, flags) == BitAnd(p, 255 - flags)

\* C8: CMP, CPX and CPY with the register value r and the operand M leave
\* C = (r >= M), Z = (r = M) and N = bit 7 of (r - M) mod 256, and change
\* neither a register, memory nor another flag.
C8_ComparesSetFlagsFromTheDifference ==
    [][(/\ run_state = "running"
        /\ NextInstruction \in {"CMP", "CPX", "CPY"}
        /\ run_state' = "running") =>
            LET r == Compared(NextInstruction)
                M == OperandByte
            IN  /\ Flag(status', CARRY) = (r >= M)
                /\ Flag(status', ZERO) = (r = M)
                /\ Flag(status', NEGATIVE) = (Bit((r - M) % 256, 7) = 1)
                /\ OtherFlags(status', CARRY + ZERO + NEGATIVE)
                       = OtherFlags(status, CARRY + ZERO + NEGATIVE)
                /\ register_a' = register_a
                /\ register_x' = register_x
                /\ register_y' = register_y
                /\ stack_pointer' = stack_pointer
                /\ memory' = memory]_vars

\* C9: BIT with the accumulator A and the memory operand M leaves
\* Z = ((A AND M) = 0), N = bit 7 of M and V = bit 6 of M, and changes
\* neither A, memory nor another flag.
C9_BitTestsTheAccumulator ==
    [][(Dispatching("BIT") /\ run_state' = "running") =>
            LET M == OperandByte
            IN  /\ Flag(status', ZERO) = (BitAnd(register_a, M) = 0)
                /\ Flag(status', NEGATIVE) = (Bit(M, 7) = 1)
                /\ Flag(status', OVERFLOW) = (Bit(M, 6) = 1)
                /\ OtherFlags(status', ZERO + NEGATIVE + OVERFLOW)
                       = OtherFlags(status, ZERO + NEGATIVE + OVERFLOW)
                /\ register_a' = register_a
                /\ memory' = memory]_vars

\* The byte on top of the stack, which the next pop returns.
TopOfStack == Cell(memory, STACK + ((stack_pointer + 1) % 256))

\* C10: PHP pushes P with bits 4 and 5 set and leaves P unchanged; PLP and
\* RTI take bits 0-3, 6 and 7 of P from the byte popped, whose bits 4 and 5
\* have no effect on P.
C10_StatusOnTheStack ==
    [][/\ (Dispatching("PHP") /\ run_state' = "running") =>
            /\ Cell(memory', STACK + stack_pointer) = BitOr(status, \h30)
            /\ status' = status
       /\ (/\ run_state = "running"
           /\ NextInstruction \in {"PLP", "RTI"}
           /\ run_state' = "running") =>
            /\ BitAnd(status', \hCF) = BitAnd(TopOfStack, \hCF)
            /\ BitAnd(status', \h30) = BitAnd(status, \h30)]_vars

\* The instruction about to be dispatched follows the instruction before,
\* dispatched last from the address right below.
DispatchingAfter(instruction, before) ==
    /\ Dispatching(instruction)
    /\ hist # <<>>
    /\ Last.instruction = before
    /\ Last.at + 1 = program_counter

\* C11: PHP and then PLP leave every bit of P other than bits 4 and 5 as
\* it was before the PHP, and leave SP as it was.
C11_PhpThenPlpRestoresStatus ==
    [][(DispatchingAfter("PLP", "PHP") /\ run_state' = "running") =>
            /\ BitAnd(status', \hCF) = BitAnd(Last.status, \hCF)
            /\ stack_pointer' = Last.stack_pointer]_vars

\* PHP and then PLP from N, V, Z and C set, with SP wrapping below 0x00.
C11_witness ==
    /\ input.kind = "php"
    /\ run_state = "running"
    /\ Len(hist) >= 2
    /\ Last.instruction = "PLP"
    /\ hist[Len(hist) - 1].instruction = "PHP"
    /\ hist[Len(hist) - 1].status = NEGATIVE + OVERFLOW + ZERO + CARRY
    /\ hist[Len(hist) - 1].stack_pointer = \h00
    /\ status = NEGATIVE + OVERFLOW + ZERO + CARRY
    /\ stack_pointer = \h00

\* Z and N of the status p are those of value.
ZeroAndNegative(p, value) ==
    /\ Flag(p, ZERO) = (value = 0)
    /\ Flag(p, NEGATIVE) = (Bit(value, 7) = 1)

\* The effective address of the instruction about to be dispatched, by the
\* addressing mode of its row.
OperandAddress ==
    LET f == fetch(CPU(FALSE))
    IN  get_operand_address(f.c, OpCode_get(f.v).addressing_mode).v

\* C12: TSX sets X to SP, sets Z and N from that value and leaves SP and
\* the stack memory unchanged; TXS sets SP to X and changes no flag.
C12_StackPointerTransfers ==
    [][/\ Dispatching("TSX") =>
            /\ run_state' = "running"
            /\ register_x' = stack_pointer
            /\ ZeroAndNegative(status', stack_pointer)
            /\ stack_pointer' = stack_pointer
            /\ memory' = memory
       /\ Dispatching("TXS") =>
            /\ run_state' = "running"
            /\ stack_pointer' = register_x
            /\ status' = status]_vars

\* The source and the destination of a register transfer, before and after.
TransferSource(instruction) ==
    CASE instruction \in {"TAX", "TAY"} -> register_a
      [] instruction = "TXA" -> register_x
      [] instruction = "TYA" -> register_y

\* C13: TAX, TAY, TXA and TYA execute without failure, copy the source
\* register into the destination, set Z and N from the value copied and
\* change nothing else except PC.
C13_RegisterTransfers ==
    [][(run_state = "running"
        /\ NextInstruction \in {"TAX", "TAY", "TXA", "TYA"}) =>
            LET value == TransferSource(NextInstruction)
            IN  /\ run_state' = "running"
                /\ register_a' =
                       IF NextInstruction \in {"TXA", "TYA"} THEN value
                       ELSE register_a
                /\ register_x' =
                       IF NextInstruction = "TAX" THEN value ELSE register_x
                /\ register_y' =
                       IF NextInstruction = "TAY" THEN value ELSE register_y
                /\ ZeroAndNegative(status', value)
                /\ OtherFlags(status', ZERO + NEGATIVE)
                       = OtherFlags(status, ZERO + NEGATIVE)
                /\ stack_pointer' = stack_pointer
                /\ memory' = memory]_vars

\* C14: INC and DEC add and subtract 1 modulo 256 on the byte at the
\* effective address, INX and INY add 1 modulo 256 to X and Y, DEX and DEY
\* subtract 1 modulo 256 from X and Y; each sets Z and N from the new value.
C14_IncrementsAndDecrements ==
    [][(run_state = "running" /\ run_state' = "running") =>
            /\ NextInstruction \in {"INC", "DEC"} =>
                 LET value == (OperandByte
                               + IF NextInstruction = "INC" THEN 1 ELSE 255)
                              % 256
                 IN  /\ Cell(memory', OperandAddress) = value
                     /\ ZeroAndNegative(status', value)
            /\ NextInstruction \in {"INX", "DEX"} =>
                 LET value == (register_x
                               + IF NextInstruction = "INX" THEN 1 ELSE 255)
                              % 256
                 IN  /\ register_x' = value
                     /\ ZeroAndNegative(status', value)
            /\ NextInstruction \in {"INY", "DEY"} =>
                 LET value == (register_y
                               + IF NextInstruction = "INY" THEN 1 ELSE 255)
                              % 256
                 IN  /\ register_y' = value
                     /\ ZeroAndNegative(status', value)]_vars

\* The opcode about to be fetched (when the fetch is inside the array).
NextOpcode == Cell(memory, program_counter)

\* The input of the shift or rotate about to be dispatched: the accumulator
\* when its row has the mode Other, else the byte at the effective address.
ShiftInput ==
    IF OpCode_get(NextOpcode).addressing_mode = "Other" THEN register_a
    ELSE OperandByte

\* The next state holds result where the shift or rotate about to be
\* dispatched stores it (in memory mode the accumulator stays), with Z and
\* N of it and with the carry carry.
ShiftLeaves(result, carry) ==
    /\ IF OpCode_get(NextOpcode).addressing_mode = "Other"
       THEN register_a' = result
       ELSE /\ Cell(memory', OperandAddress) = result
            /\ register_a' = register_a
    /\ ZeroAndNegative(status', result)
    /\ Flag(status', CARRY) = carry

RorOpcodes == {\h6A, \h66, \h76, \h6E, \h7E}

\* C15: every ROR opcode rotates right: from the input v and the old carry
\* c the result is (v >> 1) | (c << 7), the new C is bit 0 of v and Z, N
\* are those of the result; its row of the table carries ROR, not ROL.
C15_RorRotatesRight ==
    [][(/\ run_state = "running"
        /\ program_counter < MEMORY_LEN
        /\ NextOpcode \in RorOpcodes
        /\ run_state' = "running") =>
            /\ OpCode_get(NextOpcode).instruction = "ROR"
            /\ ShiftLeaves((ShiftInput \div 2) + 128 * Bit(status, 0),
                           Bit(ShiftInput, 0) = 1)]_vars

\* C16: ASL, LSR and ROL, on the accumulator or on memory, with the input v
\* and the old carry c: ASL leaves (v << 1) mod 256 and C = bit 7 of v; LSR
\* leaves v >> 1 and C = bit 0 of v, so N = 0; ROL leaves
\* ((v << 1) mod 256) | c and C = bit 7 of v. The result goes to A in
\* accumulator mode, else to the effective address (A then stays), and Z, N
\* are those of the result.
C16_ShiftsAndRotateLeft ==
    [][(run_state = "running" /\ run_state' = "running") =>
            /\ NextInstruction = "ASL" =>
                 ShiftLeaves((ShiftInput * 2) % 256, Bit(ShiftInput, 7) = 1)
            /\ NextInstruction = "LSR" =>
                 /\ ShiftLeaves(ShiftInput \div 2, Bit(ShiftInput, 0) = 1)
                 /\ ~Flag(status', NEGATIVE)
            /\ NextInstruction = "ROL" =>
                 ShiftLeaves(((ShiftInput * 2) % 256) + Bit(status, 0),
                             Bit(ShiftInput, 7) = 1)]_vars

\* A ROL on a zero-page cell has rotated the set carry into bit 0 of the
\* cell, and the accumulator has stayed.
C16_witness ==
    /\ run_state = "running" /\ hist # <<>>
    /\ Last.instruction = "ROL" /\ Last.opscode = \h26
    /\ Flag(Last.status, CARRY)
    /\ register_a = Last.register_a /\ register_a # 0
    /\ Bit(Cell(memory, Cell(memory, Last.at + 1)), 0) = 1

\* The register an LDA, LDX or LDY loads, in the state or in the next one.
LoadTarget(instruction, a, x, y) ==
    CASE instruction = "LDA" -> a
      [] instruction = "LDX" -> x
      [] instruction = "LDY" -> y

\* C17: LDA, LDX and LDY set their register to the byte at the effective
\* address, with Z = 1 iff that byte is 0 and N = its bit 7; no other
\* register, no other flag and no byte of memory changes.
C17_LoadsSetRegisterAndFlags ==
    [][(/\ run_state = "running"
        /\ NextInstruction \in {"LDA", "LDX", "LDY"}
        /\ run_state' = "running") =>
            /\ LoadTarget(NextInstruction, register_a', register_x',
                          register_y') = OperandByte
            /\ NextInstruction # "LDA" => register_a' = register_a
            /\ NextInstruction # "LDX" => register_x' = register_x
            /\ NextInstruction # "LDY" => register_y' = register_y
            /\ ZeroAndNegative(status', OperandByte)
            /\ OtherFlags(status', ZERO + NEGATIVE)
                   = OtherFlags(status, ZERO + NEGATIVE)
            /\ stack_pointer' = stack_pointer
            /\ memory' = memory]_vars

\* An LDX has loaded a byte with bit 7 set from memory over another value,
\* while Z was set.
C17_witness ==
    /\ run_state = "running" /\ hist # <<>>
    /\ Last.instruction = "LDX" /\ Last.opscode # \hA2
    /\ register_x >= 128 /\ register_x # Last.register_x
    /\ Flag(Last.status, ZERO)
    /\ Flag(status, NEGATIVE) /\ ~Flag(status, ZERO)
    /\ register_a = Last.register_a /\ register_y = Last.register_y

\* The call before the last one (when hist holds two).
Before == hist[Len(hist) - 1]

\* C18: mem_read and mem_write are total over 0x0000 .. 0xFFFF: no call of
\* them fails, and a mem_read that follows a mem_write of the same address
\* returns the byte written.
C18_MemoryIsTotal ==
    /\ (hist # <<>> /\ Last.op \in {"mem_read", "mem_write"}) =>
            run_state = "running"
    /\ (/\ Len(hist) >= 2
        /\ Before.op = "mem_write" /\ Last.op = "mem_read"
        /\ Before.addr = Last.addr) =>
            Last.v = Before.data

\* C19: for every a with a + 1 <= 0xFFFF, mem_read_u16(a) returns
\* mem_read(a) | (mem_read(a + 1) << 8), and a mem_read_u16(a) that follows
\* mem_write_u16(a, v) returns v.
C19_WordsAreLittleEndian ==
    /\ (/\ hist # <<>>
        /\ Last.op = "mem_read_u16"
        /\ Last.addr + 1 <= \hFFFF) =>
            /\ run_state = "running"
            /\ Last.v = mem_read(CPU(TRUE), Last.addr).v
                         + 256 * mem_read(CPU(TRUE), Last.addr + 1).v
    /\ (/\ Len(hist) >= 2
        /\ Before.op = "mem_write_u16" /\ Last.op = "mem_read_u16"
        /\ Before.addr = Last.addr
        /\ Last.addr + 1 <= \hFFFF) =>
            /\ run_state = "running"
            /\ Last.v = Before.data

\* C20: when the byte fetched at PC is no opcode of the table, run() stops
\* with the fatal decode failure and executes nothing: A, X, Y, SP, P and
\* memory are as before the fetch, and no instruction runs after a failure.
C20_DecodeFailureIsFatal ==
    [][/\ run_state # "panicked"
       /\ Dispatching("none") =>
            /\ run_state' = "panicked"
            /\ register_a' = register_a
            /\ register_x' = register_x
            /\ register_y' = register_y
            /\ stack_pointer' = stack_pointer
            /\ status' = status
            /\ memory' = memory]_vars

\* run() has failed on the byte 0xFF, which is no opcode, with registers,
\* flags and stack pointer that are not those of the reset.
C20_witness ==
    /\ run_state = "panicked" /\ hist # <<>>
    /\ Last.instruction = "none" /\ Last.opscode = \hFF
    /\ Cell(memory, Last.at) = \hFF
    /\ register_a = \h7F /\ register_a = Last.register_a
    /\ status = \h82 /\ status = Last.status
    /\ stack_pointer = \h80 /\ stack_pointer = Last.stack_pointer
    /\ program_counter = Last.at + 1

\* The step is a call of op that did not panic.
Called(op) ==
    /\ Len(hist') = Len(hist) + 1
    /\ hist'[Len(hist')].op = op
    /\ run_state' = "running"

\* Byte i (from 0) of the slice a load was called with.
ProgramByte(slice, i) ==
    IF i \in DOMAIN slice.cells THEN slice.cells[i] ELSE 0

\* A load of a slice of which the bytes below the offset limit are claimed
\* to be in memory: the bytes are at 0x8000 + i, the reset vector holds
\* 0x8000 little-endian and every other byte is as before the load.
LoadLeaves(limit) ==
    LET slice == hist'[Len(hist')].data
    IN  /\ \A i \in 0 .. (slice.len - 1) :
              i < limit =>
                  Cell(memory', PROGRAM_START + i) = ProgramByte(slice, i)
        /\ Cell(memory', RESET_VECTOR) = \h00
        /\ Cell(memory', RESET_VECTOR + 1) = \h80
        /\ \A a \in DOMAIN memory \cup DOMAIN memory' :
              (a \notin PROGRAM_START .. (PROGRAM_START + slice.len - 1)
                   \cup {RESET_VECTOR, RESET_VECTOR + 1}) =>
                  Cell(memory', a) = Cell(memory, a)

\* A reset: A = X = Y = 0, all flags clear, SP = 0xFF, memory as it was,
\* and PC = 0x8000 when the call before it was a load.
ResetLeaves ==
    /\ register_a' = 0 /\ register_x' = 0 /\ register_y' = 0
    /\ status' = 0
    /\ stack_pointer' = \hFF
    /\ memory' = memory
    /\ (hist # <<>> /\ Last.op = "load") => program_counter' = \h8000

\* C21: after load(program) and then reset(), memory[0x8000 + i] is
\* program[i] for every i, the reset vector at 0xFFFC/0xFFFD holds 0x8000
\* little-endian, PC = 0x8000, A = X = Y = 0, all flags are clear,
\* SP = 0xFF, and every byte outside the program region and the reset
\* vector is as it was before the load.
C21_LoadThenResetEveryByte ==
    [][/\ Called("load") => LoadLeaves(\h10000)
       /\ Called("reset") => ResetLeaves]_vars

\* C21, amended: the same, for the bytes of the program below the reset
\* vector (0x8000 + i < 0xFFFC); the two bytes of a longer program that
\* fall on the reset vector are replaced by it.
C21_LoadThenResetBelowTheVector ==
    [][/\ Called("load") => LoadLeaves(RESET_VECTOR - PROGRAM_START)
       /\ Called("reset") => ResetLeaves]_vars

\* A program of 0x7FFC bytes has been loaded over a byte written to the
\* zero page, and the reset after it has cleared registers and flags that
\* were set: the last byte of the program is at 0xFFFB, below the vector.
C21_witness ==
    /\ run_state = "running" /\ Len(hist) = 3
    /\ hist[1].op = "mem_write" /\ hist[1].addr = \hFF /\ hist[1].data = \h9C
    /\ hist[2].op = "load" /\ hist[2].data.len = \h7FFC
    /\ hist[3].op = "reset"
    /\ Cell(memory, \hFF) = \h9C
    /\ Cell(memory, \hFFFB) = \hEA
    /\ Cell(memory, \hFFFC) = \h00 /\ Cell(memory, \hFFFD) = \h80
    /\ program_counter = \h8000
    /\ register_a = 0 /\ status = 0 /\ stack_pointer = \hFF

\* The step is a call of the closure of main(); CallbackEntry is its entry.
CallbackEntry == hist'[Len(hist')]

CallbackStep ==
    /\ hist' # hist
    /\ CallbackEntry.instruction = "callback"

\* C22: the host, handling a key press, writes one byte to 0xFF, which is
\* 0x77 for W, 0x73 for S, 0x61 for A and 0x64 for D, and changes nothing
\* else of the CPU (the byte at 0xFE is the random byte the closure writes
\* after the keys are handled).
C22_KeyPressWritesItsByte ==
    [][(CallbackStep /\ CallbackEntry.events \in
                           {<<"W">>, <<"S">>, <<"A">>, <<"D">>}) =>
            LET key == CallbackEntry.events[1]
            IN  /\ Cell(memory', \hFF) =
                       CASE key = "W" -> \h77
                         [] key = "S" -> \h73
                         [] key = "A" -> \h61
                         [] key = "D" -> \h64
                /\ \A a \in (DOMAIN memory \cup DOMAIN memory')
                                \ {\hFE, \hFF} :
                       Cell(memory', a) = Cell(memory, a)
                /\ UNCHANGED <<register_a, register_x, register_y, status,
                               program_counter, stack_pointer>>
                /\ run_state' = "running"]_vars

\* The step is an instruction of the loop of run_with_callback.
InstructionStep ==
    /\ hist' # hist
    /\ CallbackEntry.instruction # "callback"

StackCell(mem, k) == Cell(mem, STACK + ((stack_pointer + k + 256) % 256))

\* C24: the return address has the 6502 layout on the stack. A JSR with its
\* opcode at a and SP = s stores the high byte of a + 2 at 0x0100 + s and
\* the low byte at 0x0100 + ((s - 1) mod 256) and leaves SP = (s - 2) mod
\* 256; an RTS takes the low byte from the first byte it pops and the high
\* byte from the second, and sets PC to that address plus 1.
C24_ReturnAddressLayout ==
    [][/\ (Dispatching("JSR") /\ run_state' = "running") =>
            /\ StackCell(memory', 0) = (program_counter + 2) \div 256
            /\ StackCell(memory', -1) = (program_counter + 2) % 256
            /\ stack_pointer' = (stack_pointer + 254) % 256
       /\ (Dispatching("RTS") /\ run_state' = "running") =>
            program_counter' =
                (StackCell(memory, 1) + 256 * StackCell(memory, 2) + 1)
                % 65536]_vars

\* The size in bytes of an instruction with the addressing mode mode.
TrueSize(mode) ==
    CASE mode = "Other" -> 1
      [] mode \in {"Immediate", "ZeroPage", "ZeroPageX", "ZeroPageY",
                   "IndirectX", "IndirectY"} -> 2
      [] mode \in {"Absolute", "AbsoluteX", "AbsoluteY"} -> 3

\* The instructions that set PC themselves, and BRK.
ControlFlow == Branches \cup {"JMP", "JSR", "RTS", "RTI", "BRK"}

\* C25: an instruction of the table other than jumps, calls, returns,
\* branches and BRK, with its opcode at a, leaves PC = a + n, where n is
\* its size: 1 for implied and accumulator, 2 for immediate, zero page,
\* indexed zero page, (indirect,X) and (indirect),Y, 3 for absolute and
\* indexed absolute; and the len of its row is that size.
C25_PcAdvancesByTheSize ==
    [][(/\ run_state = "running"
        /\ NextInstruction \notin ControlFlow \cup {"none", "panic"}
        /\ run_state' = "running") =>
            LET command == OpCode_get(NextOpcode)
            IN  /\ command.len = TrueSize(command.addressing_mode)
                /\ program_counter' =
                       program_counter + TrueSize(command.addressing_mode)]_vars

\* The address of the reference table for the instruction about to be
\* dispatched, from its operand bytes at PC + 1 and PC + 2.
ReferenceAddress(mode) ==
    LET byte == Cell(memory, program_counter + 1)
        word == byte + 256 * Cell(memory, program_counter + 2)
        Pointer(p) == Cell(memory, p) + 256 * Cell(memory, (p + 1) % 256)
    IN  CASE mode = "ZeroPageX" -> (byte + register_x) % 256
          [] mode = "ZeroPageY" -> (byte + register_y) % 256
          [] mode = "AbsoluteX" -> (word + register_x) % 65536
          [] mode = "AbsoluteY" -> (word + register_y) % 65536
          [] mode = "IndirectX" -> Pointer((byte + register_x) % 256)
          [] mode = "IndirectY" -> (Pointer(byte) + register_y) % 65536

\* C26: for ZeroPageX, ZeroPageY, AbsoluteX, AbsoluteY, IndirectX and
\* IndirectY the resolver returns the address of the reference table (the
\* high byte of a pointer is read inside the zero page): it is the address
\* the instruction uses, a load reads its register there and a store
\* writes its register there and nowhere else.
C26_ResolverAddresses ==
    [][(/\ run_state = "running"
        /\ program_counter < MEMORY_LEN
        /\ OpCode_get(NextOpcode) # None
        /\ OpCode_get(NextOpcode).addressing_mode \in
               {"ZeroPageX", "ZeroPageY", "AbsoluteX", "AbsoluteY",
                "IndirectX", "IndirectY"}
        /\ run_state' = "running") =>
            LET addr == ReferenceAddress(OpCode_get(NextOpcode).addressing_mode)
            IN  /\ OperandAddress = addr
                /\ NextInstruction \in {"LDA", "LDX", "LDY"} =>
                       LoadTarget(NextInstruction, register_a', register_x',
                                  register_y') = Cell(memory, addr)
                /\ NextInstruction \in {"STA", "STX", "STY"} =>
                       memory' = Store(memory, addr,
                                       CASE NextInstruction = "STA" -> register_a
                                         [] NextInstruction = "STX" -> register_x
                                         [] NextInstruction = "STY" -> register_y)]_vars

\* A STA ($FF),Y has stored the accumulator at the pointer of the cells
\* 0xFF and 0x00 plus Y: the high byte of the pointer came from 0x00.
C26_witness ==
    /\ run_state = "running" /\ hist # <<>>
    /\ Last.instruction = "STA" /\ Last.opscode = \h91
    /\ Cell(memory, Last.at + 1) = \hFF
    /\ Last.register_y = \hFF /\ Last.register_a # 0
    /\ Cell(memory, \h00) # Cell(memory, \h100)
    /\ Cell(memory, (Cell(memory, \hFF) + 256 * Cell(memory, \h00)
                     + Last.register_y) % 65536) = Last.register_a

\* C27: PC is within 0 .. 0xFFFF in every state, and the advances of PC
\* wrap modulo 65536 and do not fail: an RTS does not fail and sets PC to
\* the word it pops plus 1 modulo 65536, and a JMP or JSR whose operand
\* bytes are inside memory does not fail.
C27_PcWraps ==
    [][/\ program_counter \in 0 .. \hFFFF
       /\ program_counter' \in 0 .. \hFFFF
       /\ Dispatching("RTS") =>
            /\ run_state' = "running"
            /\ program_counter' =
                   (StackCell(memory, 2) + 256 * StackCell(memory, 1) + 1)
                   % 65536
       /\ ((Dispatching("JMP") \/ Dispatching("JSR"))
              /\ NextOpcode # \h6C
              /\ program_counter + 2 < MEMORY_LEN) =>
            run_state' = "running"]_vars

\* C28: SP is within 0 .. 255 in every state and a stack access uses the
\* address 0x0100 + SP, inside 0x0100 .. 0x01FF, without an error: a push
\* writes the cell at 0x0100 + SP and no other and leaves SP - 1 modulo
\* 256 (from 0x00: the cell 0x0100 and SP = 0xFF), a pop leaves SP + 1
\* modulo 256 and reads the cell at 0x0100 + that SP (from 0xFF: SP = 0x00
\* and the cell 0x0100).
C28_StackStaysInItsPage ==
    [][/\ stack_pointer \in 0 .. 255
       /\ stack_pointer' \in 0 .. 255
       /\ (Dispatching("PHA") \/ Dispatching("PHP")) =>
            /\ run_state' = "running"
            /\ memory' = Store(memory, STACK + stack_pointer,
                               Cell(memory', STACK + stack_pointer))
            /\ Dispatching("PHA") =>
                   Cell(memory', STACK + stack_pointer) = register_a
            /\ stack_pointer' = (stack_pointer + 255) % 256
       /\ (Dispatching("PLA") \/ Dispatching("PLP")) =>
            /\ run_state' = "running"
            /\ memory' = memory
            /\ stack_pointer' = (stack_pointer + 1) % 256
            /\ Dispatching("PLA") =>
                   register_a' = Cell(memory, STACK + stack_pointer')]_vars

\* A PHA at SP = 0x00 has written the accumulator to 0x0100 and left
\* SP = 0xFF.
C28_witness ==
    /\ run_state = "running" /\ hist # <<>>
    /\ Last.instruction = "PHA" /\ Last.stack_pointer = \h00
    /\ Last.register_a = \hFF /\ Cell(memory, \h100) = \hFF
    /\ stack_pointer = \hFF

\* C29: in every state reached from a reset, whatever instructions have
\* run, PLP and RTI with any byte on the stack among them, bit 5 of the
\* status register P is 0.
C29_BitFiveStaysClear == Bit(status, 5) = 0

\* A PLP or an RTI has pulled the byte 0xFF and left P = 0xDF.
C29_witness ==
    /\ run_state = "running" /\ hist # <<>>
    /\ Last.instruction \in {"PLP", "RTI"}
    /\ Cell(memory, STACK + ((Last.stack_pointer + 1) % 256)) = \hFF
    /\ status = \hDF

\* The resolver rejects the mode: on a CPU whose reads are all inside the
\* array, get_operand_address fails only in its last arm.
Unsupported(mode) == get_operand_address(CPU_default, mode).c.panicked

\* The arm of the row never fails for the mode of the row: the arms that
\* call the resolver with whatever mode the row has, the shifts and
\* rotates, which call it unless the mode is Other, and JMP, which has
\* arms for Absolute and Other and `unreachable!()` for the rest.
RowIsAccepted(command) ==
    /\ command.instruction \in
          {"ADC", "AND", "BIT", "CMP", "CPX", "CPY", "DEC", "EOR", "INC",
           "LDA", "LDX", "LDY", "ORA", "SBC", "STA", "STX", "STY"}
          => ~Unsupported(command.addressing_mode)
    /\ (command.instruction \in {"ASL", "LSR", "ROL", "ROR"}
           /\ command.addressing_mode # "Other")
          => ~Unsupported(command.addressing_mode)
    /\ command.instruction = "JMP"
          => /\ command.addressing_mode \in {"Absolute", "Other"}
             /\ ~ExecJMP(CPU_default, command).panicked

\* C30: no opcode of the table makes the resolver fail for its mode or
\* takes the unreachable arm of JMP: every row whose arm calls the
\* resolver has a mode the resolver accepts and the rows of JMP have
\* Absolute or Other, for every row of the table (which is constant, and
\* is gone through before the first instruction) and for the row of the
\* opcode about to be dispatched.
C30_TableModesAreAccepted ==
    /\ hist = <<>> =>
          \A opscode \in 0 .. 255 :
              OpCode_get(opscode) # None => RowIsAccepted(OpCode_get(opscode))
    /\ (run_state = "running" /\ NextInstruction \notin {"none", "panic"})
          => RowIsAccepted(OpCode_get(NextOpcode))

\* The indirect JMP, whose row has the mode Other, has run and the loop
\* goes on.
C30_witness ==
    /\ run_state = "running" /\ hist # <<>>
    /\ Last.opscode = \h6C /\ Last.instruction = "JMP"
    /\ OpCode_get(Last.opscode).addressing_mode = "Other"

\* C31: an instruction other than JMP, JSR, RTS, RTI and the branches,
\* after which run goes on or returns, leaves PC above where it was, so
\* that run cannot go on forever through such instructions.
C31_PcStrictlyIncreases ==
    [][(/\ run_state = "running"
        /\ NextInstruction \notin
               (ControlFlow \ {"BRK"}) \cup {"none", "panic"}
        /\ run_state' \in {"running", "returned"}) =>
            program_counter' > program_counter]_vars

====
